---- MODULE Spec2Model ----
(***************************************************************************)
(* Model of the hosttech_dns Ansible module (library/hosttech_dns.py):     *)
(*   - run_module: the reconciliation of a record group of a zone against  *)
(*     the desired ttl / values, and the application of the resulting      *)
(*     delete / update / create calls (specification Spec);                *)
(*   - encode_wsdl / decode_wsdl: the typed value codec (specification     *)
(*     SpecCodec).                                                         *)
(*                                                                         *)
(* Python values are modelled as follows.  A text string is a sequence of  *)
(* one-character strings.  An optional value (None or x) is the empty      *)
(* sequence or the one-element sequence <<x>>.                             *)
(***************************************************************************)
EXTENDS Integers, Sequences, FiniteSets, TLC

VARIABLES
    params,     \* module.params and module.check_mode of the run
    remote,     \* the records the remote service holds for the zone, in order
    nextId,     \* the id the remote service gives the next created record
    pc,         \* position of run_module: "start", "apply", "exit"
    plan,       \* what the comparison and the decision computed
    step,       \* number of operations of the plan already applied
    calls,      \* remote calls issued by the current run, in order
    result,     \* how the current run ended
    run,        \* number of the current run (runs repeat the same params)
    prior,      \* how the previous run ended, and after how many applied operations
    cv,         \* codec: the value handed to encode_wsdl
    cnode,      \* codec: the node encode_wsdl produced
    cout,       \* codec: what decode_wsdl returned
    cpc,        \* codec: "new", "encoded", "decoded"
    data,       \* the record set reported by state get / by the facts module
    request,    \* client: the operation called and its record id
    response,   \* client: the status code and the bytes the transport answers
    apc,        \* client: "new", "composed", "received", "parsed",
                \*         "authenticated", "done"
    composed,   \* client: number of requests composed
    sent,       \* client: number of times the transport was invoked
    parser,     \* client: the Parser that Composer.execute returned
    outcome     \* client: what the operation returned or raised

vars == <<params, remote, nextId, pc, plan, step, calls, result, run, prior,
          cv, cnode, cout, cpc, data,
          request, response, apc, composed, sent, parser, outcome>>
runVars == <<params, remote, nextId, pc, plan, step, calls, result, run, prior, data>>
codecVars == <<cv, cnode, cout, cpc>>
clientVars == <<request, response, apc, composed, sent, parser, outcome>>

(***************************************************************************)
(* Bounds of the model.                                                    *)
(***************************************************************************)
MaxRecords == 2
MaxValues == 2
MaxRuns == 2
MaxLen == 2     \* entries of an inner dict, elements of an inner list
MaxOuter == 1   \* entries or elements of a container that holds containers

\* Python None and optional values
None == <<>>
Some(x) == <<x>>

(***************************************************************************)
(* Text helpers.                                                           *)
(***************************************************************************)
Digits == <<"0", "1", "2", "3", "4", "5", "6", "7", "8", "9">>

IsDigit(c) == \E i \in 1..10 : Digits[i] = c

DigitValue(c) == (CHOOSE i \in 1..10 : Digits[i] = c) - 1

RECURSIVE NatToText(_)
\* str(n) for n >= 0
NatToText(n) ==
    IF n < 10 THEN <<Digits[n + 1]>>
    ELSE NatToText(n \div 10) \o <<Digits[(n % 10) + 1]>>

\* str(n) for an integer
IntToText(n) == IF n < 0 THEN <<"-">> \o NatToText(0 - n) ELSE NatToText(n)

RECURSIVE DigitsToNat(_, _)
DigitsToNat(t, acc) ==
    IF t = <<>> THEN acc
    ELSE DigitsToNat(Tail(t), 10 * acc + DigitValue(Head(t)))

AllDigits(t) == t # <<>> /\ \A i \in 1..Len(t) : IsDigit(t[i])

\* int(text): <<n>>, or None where Python raises ValueError
ParseInt(t) ==
    IF AllDigits(t) THEN Some(DigitsToNat(t, 0))
    ELSE IF t # <<>> /\ Head(t) \in {"-", "+"} /\ AllDigits(Tail(t))
         THEN Some((IF Head(t) = "-" THEN -1 ELSE 1) * DigitsToNat(Tail(t), 0))
         ELSE None

\* text.split(' ', 1)
Split1(t) ==
    IF \E i \in 1..Len(t) : t[i] = " "
    THEN LET i == CHOOSE k \in 1..Len(t) :
                      t[k] = " " /\ \A j \in 1..(k - 1) : t[j] # " "
         IN <<SubSeq(t, 1, i - 1), SubSeq(t, i + 1, Len(t))>>
    ELSE <<t>>

(***************************************************************************)
(* Records (class DNSRecord).  The zone back-reference is not modelled: no *)
(* decision of run_module reads it.                                        *)
(***************************************************************************)
DNSRecord == [id |-> None, type |-> None, prefix |-> None, target |-> None,
              ttl |-> 86400, priority |-> None]

\* the payload of add_record / update_record: DNSRecord.encode(include_ids=False)
RecordData(r) == [type |-> r.type, prefix |-> r.prefix, target |-> r.target,
                  ttl |-> r.ttl, priority |-> r.priority]

(***************************************************************************)
(* List helpers (Python list operations used by run_module).               *)
(***************************************************************************)
\* x in xs
Contains(xs, x) == \E i \in 1..Len(xs) : xs[i] = x

\* faulty variant of ListRemove: the matched entry stays in the list
ListRemoveKeeps(xs, x) == xs

\* xs.remove(x): drops the first occurrence of x
ListRemove(xs, x) ==
    LET i == CHOOSE k \in 1..Len(xs) : xs[k] = x /\ \A j \in 1..(k - 1) : xs[j] # x
    IN SubSeq(xs, 1, i - 1) \o SubSeq(xs, i + 1, Len(xs))

\* faulty variant of PopRecord: reads the last element without taking it off
PopRecordKeeps(xs) == [record |-> xs[Len(xs)], rest |-> xs]

\* xs.pop(): the last element, and the list without it
PopRecord(xs) == [record |-> xs[Len(xs)], rest |-> SubSeq(xs, 1, Len(xs) - 1)]

SeqsUpTo(S, n) == UNION {[1..k -> S] : k \in 0..n}

(***************************************************************************)
(* Zone and record name handling (run_module, "Get zone and record" and    *)
(* "Convert record to prefix").                                            *)
(***************************************************************************)
UpperCase == <<"A", "B", "C", "D", "E", "F", "G", "H", "I", "J", "K", "L", "M",
               "N", "O", "P", "Q", "R", "S", "T", "U", "V", "W", "X", "Y", "Z">>
LowerCase == <<"a", "b", "c", "d", "e", "f", "g", "h", "i", "j", "k", "l", "m",
               "n", "o", "p", "q", "r", "s", "t", "u", "v", "w", "x", "y", "z">>

LowerChar(c) ==
    IF \E i \in 1..26 : UpperCase[i] = c
    THEN LowerCase[CHOOSE i \in 1..26 : UpperCase[i] = c]
    ELSE c

\* text.lower()
Lower(t) == [i \in 1..Len(t) |-> LowerChar(t[i])]

\* if t[-1:] == '.': t = t[:-1]
StripDot(t) ==
    IF t # <<>> /\ t[Len(t)] = "." THEN SubSeq(t, 1, Len(t) - 1) ELSE t

\* t.endswith(suffix)
EndsWith(t, suffix) ==
    /\ Len(suffix) <= Len(t)
    /\ SubSeq(t, Len(t) - Len(suffix) + 1, Len(t)) = suffix

zone_in(p) == StripDot(Lower(p.zone))
record_in(p) == StripDot(Lower(p.record))

\* faulty variant of InZone: the dot before the zone name is not required
InZoneAnySuffix(p) == EndsWith(record_in(p), zone_in(p))

\* the check "Record must be in zone"
InZone(p) ==
    EndsWith(record_in(p), <<".">> \o zone_in(p)) \/ record_in(p) = zone_in(p)

\* the prefix of the requested group: None at the zone apex
Prefix(p) ==
    IF record_in(p) = zone_in(p) THEN None
    ELSE Some(SubSeq(record_in(p), 1, Len(record_in(p)) - Len(zone_in(p)) - 1))

(***************************************************************************)
(* run_module, "Find matching records": the candidates are the zone's      *)
(* records of the requested (prefix, type), in the zone's order.           *)
(***************************************************************************)
\* faulty variant of MatchingRecords: the prefix is not compared
MatchingRecordsAnyPrefix(zoneRecords, prefix, type_in) ==
    SelectSeq(zoneRecords, LAMBDA r : r.type = type_in)

MatchingRecords(zoneRecords, prefix, type_in) ==
    SelectSeq(zoneRecords, LAMBDA r : r.prefix = prefix /\ r.type = type_in)

(***************************************************************************)
(* run_module, "Parse records": each value becomes a (priority, target)    *)
(* pair; PTR and MX values are "priority target".  The result is None      *)
(* where Python raises (a value without a space, a priority that is no     *)
(* integer).                                                               *)
(***************************************************************************)
PriorityTypes == {"PTR", "MX"}

ParseValue(type_in, value) ==
    IF type_in \in PriorityTypes
    THEN LET parts == Split1(value)
         IN IF Len(parts) < 2 \/ ParseInt(parts[1]) = None THEN None
            ELSE Some(<<ParseInt(parts[1]), parts[2]>>)
    ELSE Some(<<None, value>>)

ParseValues(type_in, value_in) ==
    IF \E i \in 1..Len(value_in) : ParseValue(type_in, value_in[i]) = None
    THEN None
    ELSE Some([i \in 1..Len(value_in) |-> ParseValue(type_in, value_in[i])[1]])

(***************************************************************************)
(* run_module, "Compare records": walks the candidates in order; a         *)
(* candidate with the desired ttl whose (priority, target) is still in     *)
(* values takes that entry out of values, any other candidate is appended  *)
(* to mismatch_records.                                                    *)
(***************************************************************************)
RECURSIVE CompareFrom(_, _, _, _)
CompareFrom(records, ttl_in, values, mismatch_records) ==
    IF records = <<>>
    THEN [values |-> values, mismatch_records |-> mismatch_records]
    ELSE LET record == Head(records)
             val == <<record.priority, record.target>>
         IN IF record.ttl # ttl_in
            THEN CompareFrom(Tail(records), ttl_in, values,
                             Append(mismatch_records, record))
            ELSE IF Contains(values, val)
                 THEN CompareFrom(Tail(records), ttl_in, ListRemove(values, val),
                                  mismatch_records)
                 ELSE CompareFrom(Tail(records), ttl_in, values,
                                  Append(mismatch_records, record))

CompareRecords(records, ttl_in, values) == CompareFrom(records, ttl_in, values, <<>>)

\* the flag mismatch after the comparison
Mismatch(cmp) == cmp.mismatch_records # <<>> \/ cmp.values # <<>>

(***************************************************************************)
(* run_module, "Determine what to do".                                     *)
(***************************************************************************)
\* faulty variant of SetFields: the ttl is not written
SetFieldsKeepsTtl(record, prefix, type_in, ttl_in, priority, target) ==
    [record EXCEPT !.prefix = prefix, !.type = type_in,
                   !.priority = priority, !.target = target]

\* the fields written into a record that is changed or created
SetFields(record, prefix, type_in, ttl_in, priority, target) ==
    [record EXCEPT !.prefix = prefix, !.type = type_in, !.ttl = ttl_in,
                   !.priority = priority, !.target = target]

\* the loop over the values left: each takes a record off the end of
\* to_delete to change it, or creates a new record once to_delete is empty
RECURSIVE AssignValues(_, _, _, _, _, _, _)
AssignValues(values, to_delete, to_change, to_create, prefix, type_in, ttl_in) ==
    IF values = <<>>
    THEN [to_delete |-> to_delete, to_change |-> to_change, to_create |-> to_create]
    ELSE LET priority == Head(values)[1]
             target == Head(values)[2]
         IN IF to_delete # <<>>
            THEN LET p == PopRecord(to_delete)
                 IN AssignValues(Tail(values), p.rest,
                        Append(to_change,
                               SetFields(p.record, prefix, type_in, ttl_in, priority, target)),
                        to_create, prefix, type_in, ttl_in)
            ELSE AssignValues(Tail(values), to_delete, to_change,
                        Append(to_create,
                               SetFields(DNSRecord, prefix, type_in, ttl_in, priority, target)),
                        prefix, type_in, ttl_in)

\* faulty variant of PresentConflict: desired values missing from the group are ignored
PresentConflictIgnoresMissing(records, cmp, overwrite) ==
    records # <<>> /\ cmp.mismatch_records # <<>> /\ ~overwrite

\* faulty variant of PresentConflict: an empty group conflicts too
PresentConflictOnEmpty(records, cmp, overwrite) == Mismatch(cmp) /\ ~overwrite

\* state present fails when records exist, differ and overwrite is not set
PresentConflict(records, cmp, overwrite) ==
    records # <<>> /\ Mismatch(cmp) /\ ~overwrite

\* to_delete before the loop over the values left
PresentToDelete(records, cmp, overwrite) ==
    IF records # <<>> /\ Mismatch(cmp) /\ overwrite THEN cmp.mismatch_records ELSE <<>>

\* faulty variant of AbsentToDelete: desired values missing from the group are ignored
AbsentToDeleteMatched(records, cmp) ==
    IF cmp.mismatch_records = <<>> THEN records ELSE <<>>

\* state absent: every candidate is deleted when nothing mismatches
AbsentToDelete(records, cmp) == IF ~Mismatch(cmp) THEN records ELSE <<>>

NoPlan == [fail |-> FALSE, mismatch |-> FALSE, mismatch_records |-> <<>>,
           values |-> <<>>, records |-> <<>>,
           to_delete |-> <<>>, to_change |-> <<>>, to_create |-> <<>>]

\* comparison and decision for the candidates `records` and the parsed values
Reconcile(records, state, ttl_in, values, overwrite, prefix, type_in) ==
    LET cmp == CompareRecords(records, ttl_in, values)
        base == [NoPlan EXCEPT !.mismatch = Mismatch(cmp),
                               !.mismatch_records = cmp.mismatch_records,
                               !.values = cmp.values,
                               !.records = records]
    IN IF state = "present"
       THEN IF PresentConflict(records, cmp, overwrite)
            THEN [base EXCEPT !.fail = TRUE]
            ELSE LET a == AssignValues(cmp.values,
                                       PresentToDelete(records, cmp, overwrite),
                                       <<>>, <<>>, prefix, type_in, ttl_in)
                 IN [base EXCEPT !.to_delete = a.to_delete,
                                 !.to_change = a.to_change,
                                 !.to_create = a.to_create]
       ELSE IF state = "absent"
            THEN [base EXCEPT !.to_delete = AbsentToDelete(records, cmp)]
            ELSE base

\* the plan of a run with parameters p against the zone records zoneRecords
PlanFor(p, zoneRecords) ==
    Reconcile(MatchingRecords(zoneRecords, Prefix(p), p.type), p.state, p.ttl,
              ParseValues(p.type, p.value)[1], p.overwrite, Prefix(p), p.type)

\* "Is there nothing to change?"
NothingToChange(pl) ==
    Len(pl.to_create) = 0 /\ Len(pl.to_delete) = 0 /\ Len(pl.to_change) = 0

(***************************************************************************)
(* run_module, "Actually do something": the calls in the order deletes,    *)
(* updates, creates.                                                       *)
(***************************************************************************)
Op(kind, record) == [kind |-> kind, record |-> record]

\* faulty variant of Operations: creates are sent first, deletes last
OperationsCreatesFirst(pl) ==
    [i \in 1..Len(pl.to_create) |-> Op("addRecord", pl.to_create[i])]
    \o [i \in 1..Len(pl.to_change) |-> Op("updateRecord", pl.to_change[i])]
    \o [i \in 1..Len(pl.to_delete) |-> Op("deleteRecord", pl.to_delete[i])]

Operations(pl) ==
    [i \in 1..Len(pl.to_delete) |-> Op("deleteRecord", pl.to_delete[i])]
    \o [i \in 1..Len(pl.to_change) |-> Op("updateRecord", pl.to_change[i])]
    \o [i \in 1..Len(pl.to_create) |-> Op("addRecord", pl.to_create[i])]

(***************************************************************************)
(* Effect of the calls on the records the remote service holds.            *)
(***************************************************************************)
\* api.delete_record(record): the record with that id is gone
RemoteDelete(zoneRecords, record) ==
    SelectSeq(zoneRecords, LAMBDA r : r.id # record.id)

\* api.update_record(record): the record with that id takes the data sent
RemoteUpdate(zoneRecords, record) ==
    [i \in 1..Len(zoneRecords) |->
        IF zoneRecords[i].id = record.id
        THEN RecordData(record) @@ [id |-> record.id]
        ELSE zoneRecords[i]]

\* api.add_record(zone_in, record): a new record with the data sent and a new id
RemoteCreate(zoneRecords, record, id) ==
    Append(zoneRecords, RecordData(record) @@ [id |-> Some(id)])

ApplyOp(zoneRecords, op, id) ==
    IF op.kind = "deleteRecord" THEN RemoteDelete(zoneRecords, op.record)
    ELSE IF op.kind = "updateRecord" THEN RemoteUpdate(zoneRecords, op.record)
    ELSE RemoteCreate(zoneRecords, op.record, id)

RECURSIVE ApplyAll(_, _, _)
\* the records after all of ops were applied in order
ApplyAll(zoneRecords, ops, id) ==
    IF ops = <<>> THEN zoneRecords
    ELSE ApplyAll(ApplyOp(zoneRecords, Head(ops), id), Tail(ops), id + 1)

(***************************************************************************)
(* The value codec.  A Python value is a record tagged with its kind:      *)
(* null, str, int, bool, dict (a list of key / val entries, in insertion   *)
(* order), list, and float, which stands for every kind the codec does not *)
(* know.  An element is a record of its tag, its xsi:nil flag, its         *)
(* xsi:type attribute (None, or the namespace its prefix resolves to and   *)
(* the local name), its text (None or a text) and its children.            *)
(***************************************************************************)
VNull == [kind |-> "null"]
VStr(t) == [kind |-> "str", text |-> t]
VInt(n) == [kind |-> "int", n |-> n]
VBool(b) == [kind |-> "bool", b |-> b]
VDict(entries) == [kind |-> "dict", entries |-> entries]
VList(elems) == [kind |-> "list", elems |-> elems]
VFloat == [kind |-> "float"]

_NAMESPACE_XSD == "http://www.w3.org/2001/XMLSchema"
_NAMESPACE_XML_SOAP == "http://xml.apache.org/xml-soap"
_NAMESPACE_XML_SOAP_ENCODING == "http://schemas.xmlsoap.org/soap/encoding/"

\* lxml.etree.Element(tag)
Element(tag) == [tag |-> tag, nil |-> FALSE, type |-> None, text |-> None,
                 children |-> <<>>]

\* _set_type(node, namespace, type)
_set_type(node, namespace, type) ==
    [node EXCEPT !.type = Some([ns |-> Some(namespace), name |-> type])]

\* isinstance(value, cls): in Python bool is a subclass of int
IsInstance(value, cls) ==
    IF cls = "int" THEN value.kind \in {"int", "bool"} ELSE value.kind = cls

TextTrue == <<"t", "r", "u", "e">>
TextFalse == <<"f", "a", "l", "s", "e">>

\* str(value) of an int or a bool
PyStr(value) ==
    IF value.kind = "bool"
    THEN (IF value.b THEN <<"T", "r", "u", "e">> ELSE <<"F", "a", "l", "s", "e">>)
    ELSE IntToText(value.n)

Ok(x) == [ok |-> TRUE, val |-> x]
Raise(e) == [ok |-> FALSE, error |-> e]

RECURSIVE encode_wsdl(_, _)
RECURSIVE EncodeEntries(_, _)
RECURSIVE EncodeElems(_, _)

\* the loop of encode_wsdl over value.items(): one item child per entry
EncodeEntries(node, entries) ==
    IF entries = <<>> THEN Ok(node)
    ELSE LET ke == encode_wsdl(Element("key"), Head(entries).key)
             ve == encode_wsdl(Element("value"), Head(entries).val)
         IN IF ~ke.ok THEN ke
            ELSE IF ~ve.ok THEN ve
            ELSE EncodeEntries(
                    [node EXCEPT !.children =
                        Append(@, [Element("item") EXCEPT !.children = <<ke.val, ve.val>>])],
                    Tail(entries))

\* the loop of encode_wsdl over a list: one item child per element
EncodeElems(node, elems) ==
    IF elems = <<>> THEN Ok(node)
    ELSE LET child == encode_wsdl(Element("item"), Head(elems))
         IN IF ~child.ok THEN child
            ELSE EncodeElems([node EXCEPT !.children = Append(@, child.val)], Tail(elems))

\* encode_wsdl(node, value): the node as encode_wsdl leaves it, or the exception
encode_wsdl(node, value) ==
    IF value.kind = "null"
    THEN Ok([node EXCEPT !.nil = TRUE])
    ELSE IF IsInstance(value, "str")
    THEN Ok([_set_type(node, _NAMESPACE_XSD, "string") EXCEPT !.text = Some(value.text)])
    ELSE IF IsInstance(value, "int")
    THEN Ok([_set_type(node, _NAMESPACE_XSD, "int") EXCEPT !.text = Some(PyStr(value))])
    ELSE IF IsInstance(value, "bool")
    THEN Ok([_set_type(node, _NAMESPACE_XSD, "boolean") EXCEPT
                !.text = Some(IF value.b THEN TextTrue ELSE TextFalse)])
    ELSE IF IsInstance(value, "dict")
    THEN EncodeEntries(_set_type(node, _NAMESPACE_XML_SOAP, "Map"), value.entries)
    ELSE IF IsInstance(value, "list")
    THEN EncodeElems(_set_type(node, _NAMESPACE_XML_SOAP_ENCODING, "Array"), value.elems)
    ELSE Raise("WSDLCodingException")

\* item.find(tag): the first child with that tag, or None
Find(node, tag) ==
    IF \E i \in 1..Len(node.children) : node.children[i].tag = tag
    THEN Some(node.children[CHOOSE i \in 1..Len(node.children) :
                  /\ node.children[i].tag = tag
                  /\ \A j \in 1..(i - 1) : node.children[j].tag # tag])
    ELSE None

\* a value Python can hash, and so use as a dict key
Hashable(value) == value.kind \notin {"dict", "list"}

\* result[key] = value on the entries of a dict
DictSet(entries, key, value) ==
    IF \E i \in 1..Len(entries) : entries[i].key = key
    THEN [i \in 1..Len(entries) |->
            IF entries[i].key = key THEN [key |-> key, val |-> value] ELSE entries[i]]
    ELSE Append(entries, [key |-> key, val |-> value])

RECURSIVE decode_wsdl(_)
RECURSIVE DecodeMap(_, _)
RECURSIVE DecodeArray(_, _)

\* the loop of decode_wsdl over the children of a Map node
DecodeMap(items, entries) ==
    IF items = <<>> THEN Ok(VDict(entries))
    ELSE LET item == Head(items)
         IN IF item.tag # "item" THEN Raise("WSDLCodingException")
            ELSE IF Find(item, "key") = None THEN Raise("WSDLCodingException")
            ELSE LET key == decode_wsdl(Find(item, "key")[1])
                 IN IF ~key.ok THEN key
                    ELSE IF Find(item, "value") = None THEN Raise("WSDLCodingException")
                    ELSE LET value == decode_wsdl(Find(item, "value")[1])
                         IN IF ~value.ok THEN value
                            ELSE IF ~Hashable(key.val) THEN Raise("TypeError")
                            ELSE DecodeMap(Tail(items),
                                           DictSet(entries, key.val, value.val))

\* the loop of decode_wsdl over the children of an Array node
DecodeArray(items, elems) ==
    IF items = <<>> THEN Ok(VList(elems))
    ELSE IF Head(items).tag # "item" THEN Raise("WSDLCodingException")
    ELSE LET elt == decode_wsdl(Head(items))
         IN IF ~elt.ok THEN elt
            ELSE DecodeArray(Tail(items), Append(elems, elt.val))

\* decode_wsdl(node): the value returned, or the exception raised
decode_wsdl(node) ==
    IF node.nil THEN Ok(VNull)
    ELSE IF node.type = None THEN Raise("WSDLCodingException")
    ELSE LET type == node.type[1].name
             ns == node.type[1].ns
         IN IF ns = None THEN Raise("WSDLCodingException")
            ELSE IF ns[1] = _NAMESPACE_XSD
            THEN IF type = "boolean"
                 THEN IF node.text = Some(TextTrue) THEN Ok(VBool(TRUE))
                      ELSE IF node.text = Some(TextFalse) THEN Ok(VBool(FALSE))
                      ELSE Raise("WSDLCodingException")
                 ELSE IF type = "int"
                 THEN IF node.text = None THEN Raise("TypeError")
                      ELSE IF ParseInt(node.text[1]) = None THEN Raise("ValueError")
                      ELSE Ok(VInt(ParseInt(node.text[1])[1]))
                 ELSE IF type = "string"
                 THEN IF node.text = None THEN Ok(VNull) ELSE Ok(VStr(node.text[1]))
                 ELSE Raise("WSDLCodingException")
            ELSE IF ns[1] = _NAMESPACE_XML_SOAP
            THEN IF type = "Map" THEN DecodeMap(node.children, <<>>)
                 ELSE Raise("WSDLCodingException")
            ELSE IF ns[1] = _NAMESPACE_XML_SOAP_ENCODING
            THEN IF type = "Array" THEN DecodeArray(node.children, <<>>)
                 ELSE Raise("WSDLCodingException")
            ELSE Raise("WSDLCodingException")

(***************************************************************************)
(* The envelope parser (class Parser) and the transport step of the        *)
(* composer (Composer.execute).  A response is a status code and bytes;    *)
(* the bytes are either no XML at all or a document, of which the model    *)
(* keeps the Fault elements in document order, the children of the Header  *)
(* and the children of the Body.  A child is its namespace, its local name *)
(* and the nodes named return below it.  An exception is a record of its   *)
(* class and, for WSDLError, of error_origin and error_message.  A message *)
(* is tagged with the way Python built it.                                 *)
(***************************************************************************)
_main_ns == "http://schemas.xmlsoap.org/soap/envelope/"
_api == "https://ns1.hosttech.eu/public/api"

Exc(cls) == [cls |-> cls]

WSDLError(origin, message) ==
    [cls |-> "WSDLError", error_origin |-> origin, error_message |-> message]

HostTechAPIError(message) == [cls |-> "HostTechAPIError", message |-> message]

HostTechAPIAuthError(message) == [cls |-> "HostTechAPIAuthError", message |-> message]

\* a Python string taken as it is
PyText(s) == [str |-> s]

\* lxml.etree.tostring(fault).decode('utf-8')
tostring(fault) == [xml |-> fault]

\* 'Error {0} while executing WSDL command:\n{1}'.format(code, result.decode('utf-8'))
ErrorWhileExecuting(code, bytes) ==
    [format |-> "Error {0} while executing WSDL command:\n{1}",
     code |-> code, result |-> bytes]

ServerOrigin == <<"s", "e", "r", "v", "e", "r">>

\* text.find(':'), counted from 1; 0 where Python returns -1
FindColon(text) ==
    IF \E i \in 1..Len(text) : text[i] = ":"
    THEN CHOOSE i \in 1..Len(text) :
            text[i] = ":" /\ \A j \in 1..(i - 1) : text[j] # ":"
    ELSE 0

\* node.nsmap.get(prefix)
NsmapGet(nsmap, prefix) ==
    IF \E i \in 1..Len(nsmap) : nsmap[i].prefix = prefix
    THEN Some(nsmap[CHOOSE i \in 1..Len(nsmap) : nsmap[i].prefix = prefix].ns)
    ELSE None

\* _split_text_namespace(node, text): the local part and its namespace
_split_text_namespace(node, text) ==
    LET i == FindColon(text)
    IN IF i = 0 THEN <<text, None>>
       ELSE <<SubSeq(text, i + 1, Len(text)), NsmapGet(node.nsmap, SubSeq(text, 1, i - 1))>>

\* result[key], as a result: the value or KeyError
DictGetItem(entries, key) ==
    IF \E i \in 1..Len(entries) : entries[i].key = key
    THEN Ok(entries[CHOOSE i \in 1..Len(entries) : entries[i].key = key].val)
    ELSE Raise(Exc("KeyError"))

RECURSIVE ParseReturns(_, _, _, _)
\* faulty variant of StoreReturn: a name that has a result keeps it
StoreReturnKeepsFirst(results, localname, returns, decoded, d) ==
    IF ~d.ok THEN [ok |-> FALSE, error |-> Exc(d.error), decoded |-> decoded + 1]
    ELSE ParseReturns(IF DictGetItem(results, localname).ok THEN results
                      ELSE DictSet(results, localname, d.val),
                      localname, Tail(returns), decoded + 1)

\* Parser._parse: result[tag.localname] = d for the value d decoded from
\* the first of returns, then the rest of the loop
StoreReturn(results, localname, returns, decoded, d) ==
    IF ~d.ok THEN [ok |-> FALSE, error |-> Exc(d.error), decoded |-> decoded + 1]
    ELSE ParseReturns(DictSet(results, localname, d.val), localname,
                      Tail(returns), decoded + 1)

\* Parser._parse: for res in child.iter('return'); decoded counts the calls
\* of decode_wsdl made so far
ParseReturns(results, localname, returns, decoded) ==
    IF returns = <<>> THEN [ok |-> TRUE, result |-> results, decoded |-> decoded]
    ELSE StoreReturn(results, localname, returns, decoded, decode_wsdl(Head(returns)))

RECURSIVE _parse(_, _, _, _)
\* Parser._parse: after the returns of the first child gave r, the other
\* children
NextChild(children, api, r) ==
    IF ~r.ok THEN r ELSE _parse(r.result, Tail(children), api, r.decoded)

\* Parser._parse over the children of a Header or Body element
_parse(results, children, api, decoded) ==
    IF children = <<>> THEN [ok |-> TRUE, result |-> results, decoded |-> decoded]
    ELSE IF Head(children).namespace # api
    THEN [ok |-> FALSE, error |-> Exc("WSDLCodingException"), decoded |-> decoded]
    ELSE NextChild(children, api,
                   ParseReturns(results, Head(children).localname,
                                Head(children).returns, decoded))

\* faulty variant of FaultOrigin: the namespace of the fault code is not tested
FaultOriginAnyNamespace(fault) ==
    LET fault_code == fault.faultcode
    IN IF fault_code # None /\ fault_code[1].text # None
       THEN Lower(_split_text_namespace(fault, fault_code[1].text[1])[1])
       ELSE ServerOrigin

\* the origin Parser.__init__ gives the fault
FaultOrigin(fault) ==
    LET fault_code == fault.faultcode
    IN IF fault_code # None /\ fault_code[1].text # None
       THEN LET split == _split_text_namespace(fault, fault_code[1].text[1])
            IN IF split[2] = Some(_main_ns) THEN Lower(split[1]) ELSE ServerOrigin
       ELSE ServerOrigin

\* the message Parser.__init__ gives the fault
FaultMessage(fault) ==
    LET fault_string == fault.faultstring
    IN IF fault_string # None /\ fault_string[1].text # None
       THEN PyText(fault_string[1].text[1])
       ELSE tostring(fault)

\* Parser.__init__: the parser with the header results h and the body
\* results b
WithBody(h, b) ==
    IF ~b.ok THEN b
    ELSE [ok |-> TRUE, header |-> h.result, body |-> b.result, decoded |-> b.decoded]

\* Parser.__init__: the Body elements, after the Header elements gave h
ParseBody(api, root, h) ==
    IF ~h.ok THEN h ELSE WithBody(h, _parse(<<>>, root.body, api, h.decoded))

\* faulty variant of Parser: the Fault elements are not looked at
ParserSkipsFaults(api, root) == ParseBody(api, root, _parse(<<>>, root.header, api, 0))

\* Parser.__init__(api, root): the parser (its header and body results), or
\* the exception raised, and the number of decode_wsdl calls made
Parser(api, root) ==
    IF root.faults # <<>>
    THEN [ok |-> FALSE,
          error |-> WSDLError(FaultOrigin(Head(root.faults)),
                              FaultMessage(Head(root.faults))),
          decoded |-> 0]
    ELSE ParseBody(api, root, _parse(<<>>, root.header, api, 0))

\* Parser.get_header(header)
get_header(p, header) == DictGetItem(p.header, header)

\* Parser.get_result(body)
get_result(p, body) == DictGetItem(p.body, body)

\* lxml.etree.fromstring(result)
fromstring(bytes) ==
    IF bytes.xml THEN Ok(bytes.root) ELSE Raise(Exc("XMLSyntaxError"))

\* faulty variant of TestCode: the status code is not tested
TestCodeAcceptsAll(resp, p) == p

\* Composer.execute: the test of the status code, after the answer was
\* parsed into p
TestCode(resp, p) ==
    IF ~p.ok THEN p
    ELSE IF resp.code < 200 \/ resp.code >= 300
    THEN [ok |-> FALSE,
          error |-> WSDLError(ServerOrigin, ErrorWhileExecuting(resp.code, resp.result)),
          decoded |-> p.decoded]
    ELSE p

\* Composer.execute from the answer of the transport on: the Parser
\* returned, or the exception raised
execute(resp) ==
    IF ~fromstring(resp.result).ok
    THEN [ok |-> FALSE, error |-> fromstring(resp.result).error, decoded |-> 0]
    ELSE TestCode(resp, Parser(_api, fromstring(resp.result).val))

(***************************************************************************)
(* The client (class HostTechAPI): the decoding of records and zones, and  *)
(* what each operation expects and catches.                                *)
(***************************************************************************)
\* int(value)
PyInt(value) ==
    IF value.kind = "int" THEN Ok(value.n)
    ELSE IF value.kind = "bool" THEN Ok(IF value.b THEN 1 ELSE 0)
    ELSE IF value.kind = "str"
    THEN IF ParseInt(value.text) = None THEN Raise(Exc("ValueError"))
         ELSE Ok(ParseInt(value.text)[1])
    ELSE Raise(Exc("TypeError"))

\* source[key] on a decoded mapping
GetItem(source, key) == DictGetItem(source.entries, VStr(key))

\* source.get(key)
DictGet(source, key) ==
    IF GetItem(source, key).ok THEN GetItem(source, key).val ELSE VNull

\* some source[key] of keys raises KeyError
Missing(source, keys) == \E i \in 1..Len(keys) : ~GetItem(source, keys[i]).ok

\* DNSRecord.create_from_encoding(source)
DNSRecord_create_from_encoding(source) ==
    IF source.kind # "dict" THEN Raise(Exc("TypeError"))
    ELSE IF Missing(source, <<<<"i", "d">>, <<"z", "o", "n", "e">>, <<"t", "y", "p", "e">>, <<"t", "a", "r", "g", "e", "t">>, <<"t", "t", "l">>>>)
    THEN Raise(Exc("KeyError"))
    ELSE LET ttl == PyInt(GetItem(source, <<"t", "t", "l">>).val)
         IN IF ~ttl.ok THEN ttl
            ELSE Ok([kind |-> "DNSRecord",
                     id |-> GetItem(source, <<"i", "d">>).val,
                     zone |-> GetItem(source, <<"z", "o", "n", "e">>).val,
                     type |-> GetItem(source, <<"t", "y", "p", "e">>).val,
                     prefix |-> DictGet(source, <<"p", "r", "e", "f", "i", "x">>),
                     target |-> GetItem(source, <<"t", "a", "r", "g", "e", "t">>).val,
                     ttl |-> ttl.val,
                     priority |-> DictGet(source, <<"p", "r", "i", "o", "r", "i", "t", "y">>)])

RECURSIVE CreateRecords(_, _)
\* [DNSRecord.create_from_encoding(record) for record in source['records']]
CreateRecords(sources, records) ==
    IF sources = <<>> THEN Ok(records)
    ELSE LET record == DNSRecord_create_from_encoding(Head(sources))
         IN IF ~record.ok THEN record
            ELSE CreateRecords(Tail(sources), Append(records, record.val))

\* for record in value: the elements of a list; nothing for an empty text
\* or mapping; no other value can be iterated into records
Iterate(value) ==
    IF value.kind = "list" THEN Ok(value.elems)
    ELSE IF value.kind = "str" /\ value.text = <<>> THEN Ok(<<>>)
    ELSE IF value.kind = "dict" /\ value.entries = <<>> THEN Ok(<<>>)
    ELSE Raise(Exc("TypeError"))

\* DNSZone.create_from_encoding(source)
DNSZone_create_from_encoding(source) ==
    IF Missing(source, <<<<"n", "a", "m", "e">>, <<"i", "d">>, <<"t", "t", "l">>>>) THEN Raise(Exc("KeyError"))
    ELSE LET ttl == PyInt(GetItem(source, <<"t", "t", "l">>).val)
         IN IF ~ttl.ok THEN ttl
            ELSE IF Missing(source, <<<<"n", "a", "m", "e", "s", "e", "r", "v", "e", "r">>, <<"s", "e", "r", "i", "a", "l">>, <<"s", "e", "r", "i", "a", "l", "L", "a", "s", "t", "U", "p", "d", "a", "t", "e">>,
                                      <<"r", "e", "f", "r", "e", "s", "h">>, <<"r", "e", "t", "r", "y">>, <<"e", "x", "p", "i", "r", "e">>, <<"r", "e", "c", "o", "r", "d", "s">>>>)
            THEN Raise(Exc("KeyError"))
            ELSE LET sources == Iterate(GetItem(source, <<"r", "e", "c", "o", "r", "d", "s">>).val)
                     records == CreateRecords(sources.val, <<>>)
                 IN IF ~sources.ok THEN sources
                    ELSE IF ~records.ok THEN records
                    ELSE Ok([kind |-> "DNSZone",
                             name |-> GetItem(source, <<"n", "a", "m", "e">>).val,
                             id |-> GetItem(source, <<"i", "d">>).val,
                             ttl |-> ttl.val,
                             records |-> records.val])

ClientOperations ==
    {"getNumberOfZones", "getZone", "addRecord", "getRecord", "updateRecord",
     "deleteRecord", "changeIp", "changeTTL"}

\* faulty variant of NeedsRecordId: no operation tests the record id
NeedsRecordIdNever(op) == FALSE

\* the operations that start with "if record_id is None: raise"
NeedsRecordId(op) == op \in {"getRecord", "updateRecord", "deleteRecord"}

\* the result_name the operation hands to _execute
ResultName(op) == op \o "Response"

\* the acceptable_types the operation hands to _execute
AcceptableTypes(op) ==
    IF op \in {"getNumberOfZones", "changeIp", "changeTTL"} THEN "int"
    ELSE IF op = "deleteRecord" THEN "bool"
    ELSE "dict"

\* what the operation returns for the result of _execute
Converted(op, res) ==
    IF op = "getZone" THEN DNSZone_create_from_encoding(res)
    ELSE IF op \in {"addRecord", "getRecord", "updateRecord"}
    THEN DNSRecord_create_from_encoding(res)
    ELSE Ok(res)

ZoneNotFound == PyText("zone not found")

\* faulty variant of ExceptWSDLError: the origin of the fault is not tested
ExceptWSDLErrorAnyOrigin(op, e) ==
    IF e.cls = "WSDLError" /\ op = "getZone" /\ e.error_message = ZoneNotFound
    THEN Ok(VNull)
    ELSE Raise(e)

\* the operation's "except WSDLError as e" around _execute: what the
\* operation returns or raises for an exception raised inside the try
ExceptWSDLError(op, e) ==
    IF /\ e.cls = "WSDLError"
       /\ op = "getZone"
       /\ e.error_origin = ServerOrigin
       /\ e.error_message = ZoneNotFound
    THEN Ok(VNull)
    ELSE Raise(e)

(***************************************************************************)
(* Inputs of the model.                                                    *)
(***************************************************************************)
States == {"present", "absent", "get"}
Types == {"A", "MX"}
TTLs == {3600, 7200}

ZoneName == <<"e", ".", "c">>
RecordName == <<"E", ".", "c", ".">>
OtherPrefix == Some(<<"w">>)

\* the values a task may list for a type
ValueTexts(type) ==
    IF type = "MX" THEN {<<"1", "0", " ", "a">>, <<"2", " ", "a">>}
    ELSE {<<"a">>, <<"b">>}

\* the records the zone may hold at the start: records of the requested
\* group with either ttl, and a record of another prefix
ZoneRecordKinds(type) ==
    {[type |-> type, prefix |-> None, target |-> ParseValue(type, v)[1][2],
      ttl |-> t, priority |-> ParseValue(type, v)[1][1]] :
        v \in ValueTexts(type), t \in TTLs}
    \cup {[type |-> type, prefix |-> OtherPrefix, target |-> <<"a">>,
           ttl |-> 3600, priority |-> None]}

\* the remote service has numbered its records
WithIds(recs) == [i \in 1..Len(recs) |-> recs[i] @@ [id |-> Some(i)]]

NotRun == Raise("not run")

CodecIdle ==
    /\ cv = VNull
    /\ cnode = NotRun
    /\ cout = NotRun
    /\ cpc = "idle"

\* no operation of the client is in progress
ClientIdle ==
    /\ request = [op |-> "getNumberOfZones", record_id |-> None]
    /\ response = [code |-> 200, result |-> [xml |-> FALSE]]
    /\ apc = "idle"
    /\ composed = 0
    /\ sent = 0
    /\ parser = [ok |-> FALSE, error |-> [cls |-> "not run"], decoded |-> 0]
    /\ outcome = [ok |-> FALSE, error |-> [cls |-> "not run"]]

\* the run reports no record set
NoData == [reported |-> FALSE]

Init ==
    /\ \E st \in States, ttl \in TTLs, ty \in Types, ow \in BOOLEAN, cm \in BOOLEAN :
         \E vs \in SeqsUpTo(ValueTexts(ty), MaxValues),
            recs \in SeqsUpTo(ZoneRecordKinds(ty), MaxRecords) :
            \* a task with state get gives no value and no overwrite:
            \* run_module does not read them on that path
            /\ (st = "get") => (vs = <<>> /\ ~ow)
            /\ params = [state |-> st, zone |-> ZoneName, record |-> RecordName,
                         ttl |-> ttl, type |-> ty, value |-> vs, overwrite |-> ow,
                         check_mode |-> cm]
            /\ remote = WithIds(recs)
            /\ nextId = Len(recs) + 1
    /\ pc = "start"
    /\ plan = NoPlan
    /\ step = 0
    /\ calls = <<>>
    /\ result = "none"
    /\ run = 1
    /\ prior = [result |-> "none", step |-> 0]
    /\ data = NoData
    /\ CodecIdle
    /\ ClientIdle

(***************************************************************************)
(* run_module up to "Is there nothing to change?": the name check, the     *)
(* zone fetch, the selection, the comparison and the decision.             *)
(***************************************************************************)
\* min(*args): with one argument, the smallest element of that iterable
PyMin(args) ==
    LET of == IF Len(args) = 1 THEN args[1] ELSE {args[i] : i \in 1..Len(args)}
    IN CHOOSE x \in of : \A y \in of : x <= y

\* "Process get" of hosttech_dns, for a non-empty group: ttls is written
\* with a trailing comma, which makes it a tuple holding the set of ttls
ProcessGet(p, records) ==
    LET ttls == <<{records[i].ttl : i \in 1..Len(records)}>>
        set == [record |-> record_in(p), type |-> p.type, ttl |-> PyMin(ttls),
                value |-> [i \in 1..Len(records) |-> records[i].target]]
    IN IF Len(ttls) > 1 THEN set @@ [ttls |-> ttls] ELSE set

\* "Fetch result" of hosttech_dns_record_facts, for a non-empty group
FetchResult(p, records) ==
    LET ttls == <<{records[i].ttl : i \in 1..Len(records)}>>
        set == [record |-> record_in(p), type |-> p.type, ttl |-> PyMin(ttls),
                value |-> [i \in 1..Len(records) |-> records[i].target]]
    IN IF Len(ttls) > 1 THEN set @@ [ttls |-> ttls] ELSE set

\* module.exit_json(changed=False, set=data)
Reported(set) == [reported |-> TRUE, changed |-> FALSE, set |-> set]

\* data = {} for an empty group
EmptySet == [empty |-> TRUE]

Exit(res, pl, issued) ==
    /\ pc' = "exit"
    /\ result' = res
    /\ plan' = pl
    /\ calls' = issued

\* faulty variant of Plan: module.check_mode is not tested
PlanAppliesInCheckMode ==
    /\ pc = "start"
    /\ IF ~InZone(params)
       THEN Exit("not_in_zone", NoPlan, <<>>) /\ data' = NoData
       ELSE IF params.state = "get"
       THEN /\ Exit("get", NoPlan, <<"getZone">>)
            /\ LET records == MatchingRecords(remote, Prefix(params), params.type)
               IN data' = Reported(IF records # <<>> THEN ProcessGet(params, records)
                                   ELSE EmptySet)
       ELSE /\ data' = NoData
            /\ IF ParseValues(params.type, params.value) = None
               THEN Exit("crash", NoPlan, <<"getZone">>)
               ELSE LET pl == PlanFor(params, remote)
                    IN IF pl.fail THEN Exit("conflict", pl, <<"getZone">>)
                       ELSE IF NothingToChange(pl) THEN Exit("unchanged", pl, <<"getZone">>)
                       ELSE /\ pc' = "apply"
                            /\ plan' = pl
                            /\ calls' = <<"getZone">>
                            /\ result' = "none"
    /\ step' = 0
    /\ UNCHANGED <<params, remote, nextId, run, prior, codecVars, clientVars>>

Plan ==
    /\ pc = "start"
    /\ IF ~InZone(params)
       THEN Exit("not_in_zone", NoPlan, <<>>) /\ data' = NoData
       ELSE IF params.state = "get"
       THEN /\ Exit("get", NoPlan, <<"getZone">>)
            /\ LET records == MatchingRecords(remote, Prefix(params), params.type)
               IN data' = Reported(IF records # <<>> THEN ProcessGet(params, records)
                                   ELSE EmptySet)
       ELSE /\ data' = NoData
            /\ IF ParseValues(params.type, params.value) = None
               THEN Exit("crash", NoPlan, <<"getZone">>)
               ELSE LET pl == PlanFor(params, remote)
                    IN IF pl.fail THEN Exit("conflict", pl, <<"getZone">>)
                       ELSE IF NothingToChange(pl) THEN Exit("unchanged", pl, <<"getZone">>)
                       ELSE IF params.check_mode THEN Exit("changed", pl, <<"getZone">>)
                       ELSE /\ pc' = "apply"
                            /\ plan' = pl
                            /\ calls' = <<"getZone">>
                            /\ result' = "none"
    /\ step' = 0
    /\ UNCHANGED <<params, remote, nextId, run, prior, codecVars, clientVars>>

(***************************************************************************)
(* run_module of hosttech_dns_record_facts, run with the zone, record and  *)
(* type of the task: the name check, the zone fetch, the selection and the *)
(* report.                                                                 *)
(***************************************************************************)
Facts ==
    /\ pc = "start"
    /\ params.state = "get"
    /\ IF ~InZone(params)
       THEN Exit("not_in_zone", NoPlan, <<>>) /\ data' = NoData
       ELSE /\ Exit("facts", NoPlan, <<"getZone">>)
            /\ LET records == MatchingRecords(remote, Prefix(params), params.type)
               IN data' = Reported(IF records # <<>> THEN FetchResult(params, records)
                                   ELSE EmptySet)
    /\ step' = 0
    /\ UNCHANGED <<params, remote, nextId, run, prior, codecVars, clientVars>>

(***************************************************************************)
(* run_module, "Actually do something": one remote call per step.  A call  *)
(* that raises ends the run through fail_json; the calls made before it    *)
(* stay applied.                                                           *)
(***************************************************************************)
NextOp == Operations(plan)[step + 1]

Applied(kind) ==
    /\ step < Len(Operations(plan))
    /\ NextOp.kind = kind
    /\ remote' = ApplyOp(remote, NextOp, nextId)
    /\ nextId' = IF kind = "addRecord" THEN nextId + 1 ELSE nextId
    /\ calls' = Append(calls, kind)
    /\ step' = step + 1
    /\ IF step + 1 = Len(Operations(plan))
       THEN pc' = "exit" /\ result' = "changed"
       ELSE pc' = "apply" /\ result' = result
    /\ UNCHANGED <<params, plan, run, prior, data, codecVars, clientVars>>

ApplyDelete == pc = "apply" /\ Applied("deleteRecord")

ApplyUpdate == pc = "apply" /\ Applied("updateRecord")

ApplyCreate == pc = "apply" /\ Applied("addRecord")

\* faulty variant of CallFails: the call that failed is issued once more
CallFailsRetries ==
    /\ pc = "apply"
    /\ step < Len(Operations(plan))
    /\ calls' = calls \o <<NextOp.kind, NextOp.kind>>
    /\ pc' = "exit"
    /\ result' = "failed"
    /\ UNCHANGED <<params, remote, nextId, plan, step, run, prior, data, codecVars, clientVars>>

CallFails ==
    /\ pc = "apply"
    /\ step < Len(Operations(plan))
    /\ calls' = Append(calls, NextOp.kind)
    /\ pc' = "exit"
    /\ result' = "failed"
    /\ UNCHANGED <<params, remote, nextId, plan, step, run, prior, data, codecVars, clientVars>>

\* the task is run again with the same parameters
Rerun ==
    /\ pc = "exit"
    /\ run < MaxRuns
    /\ pc' = "start"
    /\ run' = run + 1
    /\ prior' = [result |-> result, step |-> step]
    /\ result' = "none"
    /\ plan' = NoPlan
    /\ step' = 0
    /\ calls' = <<>>
    /\ data' = NoData
    /\ UNCHANGED <<params, remote, nextId, codecVars, clientVars>>

Next == Plan \/ Facts \/ ApplyDelete \/ ApplyUpdate \/ ApplyCreate \/ CallFails \/ Rerun

Spec == Init /\ [][Next]_vars

(***************************************************************************)
(* The same runs for other zone and record names: names in other case,     *)
(* with and without a trailing dot, at the zone apex, below it, and        *)
(* outside the zone.                                                       *)
(***************************************************************************)
ZoneNames == {<<"e", ".", "c">>, <<"E", ".", "C", ".">>, <<"c">>}

RecordNames ==
    {<<"E", ".", "c", ".">>, <<"e", ".", "c">>, <<"w", ".", "e", ".", "c">>, <<"W", ".", "E", ".", "C", ".">>,
     <<"x", "e", ".", "c">>, <<"e", ".", "c", ".", ".">>, <<"w", ".", "e", ".", "d">>, <<".", "e", ".", "c">>}

\* the records the zone may hold at the start: at the apex and below it
NamedRecordKinds ==
    {[type |-> "A", prefix |-> pf, target |-> tg, ttl |-> 3600, priority |-> None] :
        pf \in {None, OtherPrefix}, tg \in {<<"a">>, <<"b">>}}

InitNames ==
    /\ \E st \in States, zn \in ZoneNames, rn \in RecordNames, ow \in BOOLEAN :
         \E vs \in {<<<<"a">>>>, <<<<"a">>, <<"b">>>>},
            recs \in SeqsUpTo(NamedRecordKinds, MaxRecords) :
            /\ params = [state |-> st, zone |-> zn, record |-> rn,
                         ttl |-> 3600, type |-> "A", value |-> vs, overwrite |-> ow,
                         check_mode |-> FALSE]
            /\ remote = WithIds(recs)
            /\ nextId = Len(recs) + 1
    /\ pc = "start"
    /\ plan = NoPlan
    /\ step = 0
    /\ calls = <<>>
    /\ result = "none"
    /\ run = 1
    /\ prior = [result |-> "none", step |-> 0]
    /\ data = NoData
    /\ CodecIdle
    /\ ClientIdle

SpecNames == InitNames /\ [][Next]_vars

(***************************************************************************)
(* One run of run_module on its own, from its start to exit_json or        *)
(* fail_json: the task is not run again and the facts module is not run.   *)
(***************************************************************************)
NextRun == Plan \/ ApplyDelete \/ ApplyUpdate \/ ApplyCreate \/ CallFails

SpecRun == Init /\ [][NextRun]_vars

(***************************************************************************)
(* Vocabulary of the properties.                                           *)
(***************************************************************************)
\* the run got as far as the comparison and the decision
Planned == pc # "start" /\ result \notin {"not_in_zone", "get", "facts", "crash"}

\* the (priority, target) pairs of a list of records
PairsOf(records) == [i \in 1..Len(records) |-> <<records[i].priority, records[i].target>>]

\* the desired (priority, target) pairs of the run
DesiredPairs == ParseValues(params.type, params.value)[1]

Count(xs, x) == Cardinality({i \in 1..Len(xs) : xs[i] = x})

Range(xs) == {xs[i] : i \in 1..Len(xs)}

\* xs and ys hold the same elements the same number of times
SameBag(xs, ys) ==
    /\ Len(xs) = Len(ys)
    /\ \A x \in Range(xs) : Count(xs, x) = Count(ys, x)

Min(a, b) == IF a < b THEN a ELSE b

\* no element occurs twice in xs
NoRepeats(xs) == \A i, j \in 1..Len(xs) : xs[i] = xs[j] => i = j

\* the calls of the current run that change records
Mutations == SelectSeq(calls, LAMBDA c : c # "getZone")

\* the previous run applied its whole plan to the remote service
PriorApplied ==
    /\ run > 1
    /\ ~params.check_mode
    /\ prior.result \in {"changed", "unchanged"}

(***************************************************************************)
(* The codec on its own: a value is encoded into a fresh element, and the  *)
(* element is decoded again.                                               *)
(***************************************************************************)
Atoms == {VNull, VStr(<<"a">>), VInt(0), VInt(-12), VBool(TRUE), VBool(FALSE), VFloat}

Keys == {VStr(<<"a">>), VStr(<<"k">>)}

ListsOver(S, n) == {VList(e) : e \in SeqsUpTo(S, n)}

DictsOver(S, n) ==
    {VDict(e) : e \in {f \in SeqsUpTo([key : Keys, val : S], n) :
                          \A i, j \in 1..Len(f) : f[i].key = f[j].key => i = j}}

Inner == Atoms \cup ListsOver(Atoms, MaxLen) \cup DictsOver(Atoms, MaxLen)

CodecValues == Inner \cup ListsOver(Inner, MaxOuter) \cup DictsOver(Inner, MaxOuter)

RunIdle ==
    /\ params = [state |-> "get", zone |-> ZoneName, record |-> RecordName,
                 ttl |-> 3600, type |-> "A", value |-> <<>>, overwrite |-> FALSE,
                 check_mode |-> FALSE]
    /\ remote = <<>>
    /\ nextId = 1
    /\ pc = "idle"
    /\ plan = NoPlan
    /\ step = 0
    /\ calls = <<>>
    /\ result = "none"
    /\ run = 1
    /\ prior = [result |-> "none", step |-> 0]
    /\ data = NoData

InitCodec ==
    /\ RunIdle
    /\ ClientIdle
    /\ cv \in CodecValues
    /\ cnode = NotRun
    /\ cout = NotRun
    /\ cpc = "new"

\* encode_wsdl on a fresh element
EncodeValue ==
    /\ cpc = "new"
    /\ cnode' = encode_wsdl(Element("arg"), cv)
    /\ cpc' = "encoded"
    /\ UNCHANGED <<cv, cout, runVars, clientVars>>

\* decode_wsdl on the element encode_wsdl produced
DecodeNode ==
    /\ cpc = "encoded"
    /\ cnode.ok
    /\ cout' = decode_wsdl(cnode.val)
    /\ cpc' = "decoded"
    /\ UNCHANGED <<cv, cnode, runVars, clientVars>>

NextCodec == EncodeValue \/ DecodeNode

SpecCodec == InitCodec /\ [][NextCodec]_vars

(***************************************************************************)
(* The client on its own: one operation of HostTechAPI is called, and the  *)
(* transport answers with a status code and bytes.  The answers cover     *)
(* bytes that are no XML, documents with and without a Fault, with each    *)
(* kind of value as authenticateResponse and as the result of the          *)
(* operation, with results that cannot be decoded and with none.           *)
(***************************************************************************)
StatusCodes == {199, 200, 299, 300, 500}

\* the prefixes in scope at a Fault element
NsMap == <<[prefix |-> <<"e">>, ns |-> _main_ns],
           [prefix |-> <<"x">>, ns |-> _NAMESPACE_XSD]>>

FaultCodeTexts == {<<"e", ":", "C", "l", "i", "e", "n", "t">>, <<"e", ":", "S", "e", "r", "v", "e", "r">>, <<"C", "l", "i", "e", "n", "t">>, <<"x", ":", "C", "l", "i", "e", "n", "t">>}
    \cup {<<"e", ":", "M", "u", "s", "t", "U", "n", "d", "e", "r", "s", "t", "a", "n", "d">>,
          <<"u", ":", "C", "l", "i", "e", "n", "t">>}

FaultCodes ==
    {None, Some([text |-> None])} \cup {Some([text |-> Some(t)]) : t \in FaultCodeTexts}

FaultStrings ==
    {None, Some([text |-> Some("zone not found")]), Some([text |-> Some("denied")])}

Faults == [nsmap : {NsMap}, faultcode : FaultCodes, faultstring : FaultStrings]

\* a return node as the service writes it for a value
ReturnNode(value) ==
    IF value.kind = "bool"
    THEN [_set_type(Element("return"), _NAMESPACE_XSD, "boolean") EXCEPT
            !.text = Some(IF value.b THEN TextTrue ELSE TextFalse)]
    ELSE encode_wsdl(Element("return"), value).val

\* a return node without xsi:type, which decode_wsdl rejects
Undecodable == Element("return")

Child(localname, returns) ==
    [namespace |-> _api, localname |-> localname, returns |-> returns]

Entry(key, value) == [key |-> VStr(key), val |-> value]

\* a record as the service reports it
RecordSource ==
    VDict(<<Entry(<<"i", "d">>, VInt(7)), Entry(<<"z", "o", "n", "e">>, VInt(1)),
            Entry(<<"t", "y", "p", "e">>, VStr(<<"A">>)), Entry(<<"p", "r", "e", "f", "i", "x">>, VNull),
            Entry(<<"t", "a", "r", "g", "e", "t">>, VStr(<<"a">>)), Entry(<<"t", "t", "l">>, VInt(3600)),
            Entry(<<"p", "r", "i", "o", "r", "i", "t", "y">>, VNull)>>)

\* a zone as the service reports it
ZoneSource ==
    VDict(<<Entry(<<"n", "a", "m", "e">>, VStr(ZoneName)), Entry(<<"i", "d">>, VInt(1)),
            Entry(<<"t", "t", "l">>, VInt(10800)), Entry(<<"n", "a", "m", "e", "s", "e", "r", "v", "e", "r">>, VStr(<<"n">>)),
            Entry(<<"s", "e", "r", "i", "a", "l">>, VInt(1)), Entry(<<"s", "e", "r", "i", "a", "l", "L", "a", "s", "t", "U", "p", "d", "a", "t", "e">>, VInt(1)),
            Entry(<<"r", "e", "f", "r", "e", "s", "h">>, VInt(1)), Entry(<<"r", "e", "t", "r", "y">>, VInt(1)),
            Entry(<<"e", "x", "p", "i", "r", "e">>, VInt(1)), Entry(<<"r", "e", "c", "o", "r", "d", "s">>, VList(<<RecordSource>>))>>)

HeaderValues == {VBool(TRUE), VBool(FALSE), VNull, VInt(1), VStr(TextTrue)}

BodyValues ==
    {VNull, VStr(<<"a">>), VInt(3), VBool(TRUE), VDict(<<>>), RecordSource,
     ZoneSource, VList(<<>>)}

\* a result of the kind the operation expects
ValidResult(op) ==
    IF AcceptableTypes(op) = "int" THEN VInt(3)
    ELSE IF AcceptableTypes(op) = "bool" THEN VBool(TRUE)
    ELSE IF op = "getZone" THEN ZoneSource
    ELSE RecordSource

Headers ==
    {<<>>, <<Child("authenticateResponse", <<Undecodable>>)>>,
     <<[Child("authenticateResponse", <<ReturnNode(VBool(TRUE))>>)
            EXCEPT !.namespace = _main_ns]>>}
    \cup {<<Child("authenticateResponse", <<ReturnNode(v)>>)>> : v \in HeaderValues}
    \cup {<<Child("authenticateResponse",
                  <<ReturnNode(VBool(FALSE)), ReturnNode(VBool(TRUE))>>)>>,
          <<Child("authenticateResponse", <<ReturnNode(VBool(TRUE))>>),
            Child("authenticateResponse", <<ReturnNode(VBool(FALSE))>>)>>}

Bodies(op) ==
    {<<>>, <<Child(ResultName(op), <<Undecodable>>)>>}
    \cup {<<Child(ResultName(op), <<ReturnNode(v)>>)>> : v \in BodyValues}
    \cup {<<Child(ResultName(op), <<ReturnNode(VNull), ReturnNode(ValidResult(op))>>)>>,
          <<Child(ResultName(op), <<ReturnNode(ValidResult(op))>>),
            Child(ResultName(op), <<ReturnNode(VStr(<<"a">>))>>)>>}

ValidHeader == <<Child("authenticateResponse", <<ReturnNode(VBool(TRUE))>>)>>

ValidBody(op) == <<Child(ResultName(op), <<ReturnNode(ValidResult(op))>>)>>

\* what a document with a Fault holds besides it
AroundFault(op) ==
    {[header |-> <<>>, body |-> <<>>],
     [header |-> ValidHeader, body |-> ValidBody(op)],
     [header |-> ValidHeader, body |-> <<Child(ResultName(op), <<Undecodable>>)>>]}

Documents(op) ==
    {[faults |-> <<>>, header |-> h, body |-> b] : h \in Headers, b \in Bodies(op)}
    \cup {[faults |-> <<f>>, header |-> a.header, body |-> a.body] :
            f \in Faults, a \in AroundFault(op)}

Responses(op) ==
    [code : StatusCodes,
     result : {[xml |-> FALSE]} \cup {[xml |-> TRUE, root |-> d] : d \in Documents(op)}]

Requests ==
    {[op |-> o, record_id |-> None] : o \in ClientOperations}
    \cup {[op |-> o, record_id |-> Some(7)] : o \in {o \in ClientOperations : NeedsRecordId(o)}}

NoParser == [ok |-> FALSE, error |-> Exc("not run"), decoded |-> 0]

NoOutcome == Raise(Exc("not run"))

InitClient ==
    /\ RunIdle
    /\ CodecIdle
    /\ request \in Requests
    /\ response \in Responses(request.op)
    /\ apc = "new"
    /\ composed = 0
    /\ sent = 0
    /\ parser = NoParser
    /\ outcome = NoOutcome

\* the operation returns or raises
Returns(res) ==
    /\ outcome' = res
    /\ apc' = "done"

\* the operation up to the request: the test of the record id, _prepare
\* and add_simple_command
Compose ==
    /\ apc = "new"
    /\ IF NeedsRecordId(request.op) /\ request.record_id = None
       THEN Returns(Raise(HostTechAPIError("Need record ID"))) /\ UNCHANGED composed
       ELSE composed' = composed + 1 /\ apc' = "composed" /\ UNCHANGED outcome
    /\ UNCHANGED <<request, response, sent, parser, runVars, codecVars>>

\* Composer.execute: the request is handed to the transport
Send ==
    /\ apc = "composed"
    /\ sent' = sent + 1
    /\ apc' = "received"
    /\ UNCHANGED <<request, response, composed, parser, outcome, runVars, codecVars>>

\* Composer.execute returned or raised p
Received(p) ==
    /\ parser' = p
    /\ IF p.ok THEN apc' = "parsed" /\ UNCHANGED outcome
       ELSE Returns(ExceptWSDLError(request.op, p.error))

\* Composer.execute: the answer is parsed, and its status code is tested
Receive ==
    /\ apc = "received"
    /\ Received(execute(response))
    /\ UNCHANGED <<request, response, composed, sent, runVars, codecVars>>

\* HostTechAPI._execute: the test of authenticateResponse
Authenticate ==
    /\ apc = "parsed"
    /\ LET h == get_header(parser, "authenticateResponse")
       IN IF ~h.ok THEN Returns(ExceptWSDLError(request.op, h.error))
          ELSE IF h.val # VBool(TRUE)
          THEN Returns(ExceptWSDLError(request.op,
                           HostTechAPIAuthError("Error on authentication!")))
          ELSE apc' = "authenticated" /\ UNCHANGED outcome
    /\ UNCHANGED <<request, response, composed, sent, parser, runVars, codecVars>>

\* HostTechAPI._execute: the result is extracted and its type is tested;
\* the operation converts it
Extract ==
    /\ apc = "authenticated"
    /\ LET res == get_result(parser, ResultName(request.op))
       IN Returns(
            IF ~res.ok THEN ExceptWSDLError(request.op, res.error)
            ELSE IF IsInstance(res.val, AcceptableTypes(request.op))
            THEN LET value == Converted(request.op, res.val)
                 IN IF value.ok THEN value
                    ELSE ExceptWSDLError(request.op, value.error)
            ELSE ExceptWSDLError(request.op,
                     HostTechAPIError("Result has unexpected type")))
    /\ UNCHANGED <<request, response, composed, sent, parser, runVars, codecVars>>

NextClient == Compose \/ Send \/ Receive \/ Authenticate \/ Extract

SpecClient == InitClient /\ [][NextClient]_vars

----------------------------------------------------------------------------
(***************************************************************************)
(* C1 (idempotency): when a run has applied its whole plan (deletes,       *)
(* updates, creates) and the task is run again with the same parameters on *)
(* the records the remote service then holds, the second run's comparison  *)
(* finds nothing to do: no conflict, an empty plan, changed = False.       *)
(***************************************************************************)
C1_Idempotent ==
    (PriorApplied /\ pc # "start") =>
        /\ result = "unchanged"
        /\ ~plan.fail
        /\ NothingToChange(plan)
        /\ Mutations = <<>>

\* a second run that found nothing to do after a first run that updated and
\* created records
C1_Witness ==
    /\ PriorApplied
    /\ prior.result = "changed"
    /\ prior.step >= 2
    /\ params.state = "present"
    /\ pc = "exit"
    /\ result = "unchanged"
    /\ nextId > MaxRecords

(***************************************************************************)
(* C2 as stated: under state present, whenever the comparison finds a      *)
(* mismatch and overwrite is false, the run fails with the conflict error  *)
(* and issues no delete, update or create.  Stated for value lists without *)
(* repeated values, the desired values the data model allows.              *)
(***************************************************************************)
C2_AsStated ==
    (Planned /\ params.state = "present" /\ plan.mismatch /\ ~params.overwrite
        /\ NoRepeats(params.value)) =>
        /\ result = "conflict"
        /\ Mutations = <<>>

(***************************************************************************)
(* C2 as amended: under state present, whenever the requested group has at *)
(* least one record, the comparison finds a mismatch and overwrite is      *)
(* false, the run fails with the conflict error and issues no delete,      *)
(* update or create.                                                       *)
(***************************************************************************)
C2_ConflictWithoutOverwrite ==
    (Planned /\ params.state = "present" /\ plan.records # <<>>
        /\ plan.mismatch /\ ~params.overwrite) =>
        /\ pc = "exit"
        /\ result = "conflict"
        /\ NothingToChange(plan)
        /\ Mutations = <<>>

\* a conflict raised only because a desired value is missing from the group
C2_Witness ==
    /\ pc = "exit"
    /\ result = "conflict"
    /\ ~params.overwrite
    /\ plan.mismatch_records = <<>>
    /\ plan.values # <<>>
    /\ calls = <<"getZone">>

(***************************************************************************)
(* C3: under state present with overwrite true and a mismatch, with R the  *)
(* mismatched candidates and P the desired pairs left after matching, the  *)
(* plan has min(|R|,|P|) updates, |R| - min(|R|,|P|) deletes and           *)
(* |P| - min(|R|,|P|) creates (never both a delete and a create); every    *)
(* update targets a different mismatched candidate; the updates and        *)
(* creates carry the desired ttl, prefix and type, and between them        *)
(* exactly the pairs of P, each as often as P holds it.                    *)
(***************************************************************************)
C3_OverwritePlan ==
    (Planned /\ params.state = "present" /\ params.overwrite /\ plan.mismatch) =>
        LET R == plan.mismatch_records
            P == plan.values
            m == Min(Len(R), Len(P))
            written == plan.to_change \o plan.to_create
        IN /\ Len(plan.to_change) = m
           /\ Len(plan.to_delete) = Len(R) - m
           /\ Len(plan.to_create) = Len(P) - m
           /\ ~(plan.to_delete # <<>> /\ plan.to_create # <<>>)
           /\ \A i \in 1..Len(plan.to_change) :
                /\ \E j \in 1..Len(R) : R[j].id = plan.to_change[i].id
                /\ \A k \in 1..Len(plan.to_change) :
                     plan.to_change[k].id = plan.to_change[i].id => k = i
           /\ \A i \in 1..Len(plan.to_delete) :
                /\ \E j \in 1..Len(R) : R[j] = plan.to_delete[i]
                /\ \A k \in 1..Len(plan.to_change) :
                     plan.to_change[k].id # plan.to_delete[i].id
           /\ \A i \in 1..Len(plan.to_create) : plan.to_create[i].id = None
           /\ \A i \in 1..Len(written) :
                /\ written[i].ttl = params.ttl
                /\ written[i].prefix = Prefix(params)
                /\ written[i].type = params.type
           /\ SameBag(PairsOf(written), P)

\* an overwrite that updates one record and deletes another
C3_Witness ==
    /\ Planned
    /\ params.state = "present"
    /\ params.overwrite
    /\ Len(plan.mismatch_records) = 2
    /\ Len(plan.values) = 1
    /\ Len(plan.to_change) = 1
    /\ Len(plan.to_delete) = 1
    /\ pc = "exit"
    /\ result = "changed"
    /\ ~params.check_mode

(***************************************************************************)
(* C4: under state absent the plan holds only deletes and is all or        *)
(* nothing: when every candidate has the desired ttl and the candidates'   *)
(* (priority, target) pairs are exactly the desired ones, the plan is one  *)
(* delete per candidate; otherwise the plan is empty and no record is      *)
(* deleted.                                                                *)
(***************************************************************************)
ExactMatch ==
    /\ \A i \in 1..Len(plan.records) : plan.records[i].ttl = params.ttl
    /\ SameBag(PairsOf(plan.records), DesiredPairs)

C4_AbsentAllOrNothing ==
    (Planned /\ params.state = "absent") =>
        /\ ~plan.fail
        /\ plan.to_change = <<>>
        /\ plan.to_create = <<>>
        /\ \A i \in 1..Len(Mutations) : Mutations[i] = "deleteRecord"
        /\ IF ExactMatch
           THEN plan.to_delete = plan.records
           ELSE /\ plan.to_delete = <<>>
                /\ result = "unchanged"
                /\ Mutations = <<>>
                /\ \A i \in 1..Len(plan.records) : Contains(remote, plan.records[i])

\* two matching records were both deleted
C4_Witness ==
    /\ Planned
    /\ params.state = "absent"
    /\ ~params.check_mode
    /\ Len(plan.records) >= 2
    /\ pc = "exit"
    /\ result = "changed"
    /\ Mutations = <<"deleteRecord", "deleteRecord">>
    /\ MatchingRecords(remote, Prefix(params), params.type) = <<>>

(***************************************************************************)
(* C5: the remote calls of a run are issued in the order zone fetch, all   *)
(* deletes, all updates, all creates: no update precedes a delete, no      *)
(* create precedes an update or a delete.                                  *)
(***************************************************************************)
CallRank(c) ==
    IF c = "getZone" THEN 0
    ELSE IF c = "deleteRecord" THEN 1
    ELSE IF c = "updateRecord" THEN 2
    ELSE 3

C5_CallOrder ==
    \A i, j \in 1..Len(calls) : i < j => CallRank(calls[i]) <= CallRank(calls[j])

\* a run that deleted one record and then updated another
C5_Witness ==
    /\ pc = "exit"
    /\ result = "changed"
    /\ calls = <<"getZone", "deleteRecord", "updateRecord">>

(***************************************************************************)
(* C6 as stated: under state present, when every candidate has the desired *)
(* ttl and the set of the candidates' (priority, target) pairs equals the  *)
(* set of the desired values, the run finds nothing to do and raises no    *)
(* conflict, whatever overwrite is.                                        *)
(***************************************************************************)
C6_AsStated ==
    (/\ Planned
     /\ params.state = "present"
     /\ \A i \in 1..Len(plan.records) : plan.records[i].ttl = params.ttl
     /\ Range(PairsOf(plan.records)) = Range(DesiredPairs)) =>
        /\ result = "unchanged"
        /\ ~plan.fail
        /\ NothingToChange(plan)

(***************************************************************************)
(* C7: under state present with no candidate and n desired values, the     *)
(* plan is exactly n creates, one per desired (priority, target) pair,     *)
(* each with the desired ttl, prefix and type, and no update or delete;    *)
(* no conflict is raised.                                                  *)
(***************************************************************************)
C7_CreatesOnEmpty ==
    (Planned /\ params.state = "present" /\ plan.records = <<>>) =>
        /\ ~plan.fail
        /\ result # "conflict"
        /\ plan.to_delete = <<>>
        /\ plan.to_change = <<>>
        /\ Len(plan.to_create) = Len(DesiredPairs)
        /\ \A i \in 1..Len(plan.to_create) :
             plan.to_create[i] = [id |-> None, type |-> params.type,
                                  prefix |-> Prefix(params), ttl |-> params.ttl,
                                  priority |-> DesiredPairs[i][1],
                                  target |-> DesiredPairs[i][2]]
        /\ \A i \in 1..Len(Mutations) : Mutations[i] = "addRecord"

\* two records were created in an empty group without overwrite
C7_Witness ==
    /\ Planned
    /\ params.state = "present"
    /\ ~params.overwrite
    /\ ~params.check_mode
    /\ plan.records = <<>>
    /\ Len(plan.to_create) >= 2
    /\ pc = "exit"
    /\ result = "changed"
    /\ Len(MatchingRecords(remote, Prefix(params), params.type)) = Len(plan.to_create)

(***************************************************************************)
(* C8 as stated: the desired values are a set.  A value list in which a    *)
(* value occurs more than once yields the same plan as the list with each  *)
(* value once, and permuting the value list does not change the records    *)
(* that result from applying the plan (compared by content: the ids of     *)
(* created records are the remote service's choice).                       *)
(***************************************************************************)
RECURSIVE Dedup(_)
Dedup(xs) ==
    IF xs = <<>> THEN <<>>
    ELSE LET init == Dedup(SubSeq(xs, 1, Len(xs) - 1))
             last == xs[Len(xs)]
         IN IF Contains(init, last) THEN init ELSE Append(init, last)

ValueOrders(n) ==
    {f \in [1..n -> 1..n] : \A i, j \in 1..n : f[i] = f[j] => i = j}

PlanOutcome(pl) == <<pl.fail, pl.to_delete, pl.to_change, pl.to_create>>

\* the contents of the zone after the plan was applied completely
ContentsAfter(pl) ==
    LET after == IF pl.fail THEN remote ELSE ApplyAll(remote, Operations(pl), nextId)
    IN [i \in 1..Len(after) |-> RecordData(after[i])]

C8_AsStated ==
    (Planned /\ step = 0) =>
        /\ PlanOutcome(plan)
             = PlanOutcome(PlanFor([params EXCEPT !.value = Dedup(@)], remote))
        /\ \A f \in ValueOrders(Len(params.value)) :
             LET permuted == [i \in 1..Len(params.value) |-> params.value[f[i]]]
                 pl == PlanFor([params EXCEPT !.value = permuted], remote)
             IN /\ pl.fail = plan.fail
                /\ SameBag(ContentsAfter(pl), ContentsAfter(plan))

(***************************************************************************)
(* C9 as stated (restartability): when a run stopped because one call      *)
(* failed, after any prefix of its plan was applied, running the task      *)
(* again with the same parameters raises no conflict, and once that run    *)
(* has applied its plan completely a further comparison finds nothing to   *)
(* do.  Stated for value lists without repeated values, the desired values *)
(* the data model allows.                                                  *)
(***************************************************************************)
Converged ==
    LET pl == PlanFor(params, remote)
    IN ~pl.fail /\ NothingToChange(pl)

C9_AsStated ==
    (run > 1 /\ prior.result = "failed" /\ pc = "exit" /\ NoRepeats(params.value)) =>
        /\ result # "conflict"
        /\ (result \in {"changed", "unchanged"} => Converged)

(***************************************************************************)
(* C9 as amended: the same, provided the action is absent, or overwrite is *)
(* true, or the call that failed was the first of the plan (so that        *)
(* nothing had been applied).                                              *)
(***************************************************************************)
C9_Restartable ==
    (/\ run > 1
     /\ prior.result = "failed"
     /\ pc = "exit"
     /\ (params.state = "absent" \/ params.overwrite \/ prior.step = 0)) =>
        /\ result # "conflict"
        /\ (result \in {"changed", "unchanged"} => Converged)

\* a run that failed after its first call was followed by a run that
\* finished the overwrite
C9_Witness ==
    /\ run > 1
    /\ prior.result = "failed"
    /\ prior.step >= 1
    /\ params.state = "present"
    /\ params.overwrite
    /\ pc = "exit"
    /\ result = "changed"
    /\ step >= 1
    /\ Converged

(***************************************************************************)
(* C10 as stated (round trip): for every supported value (null, string,    *)
(* integer, boolean, mapping, list and nestings of these), encoding        *)
(* succeeds and decoding the element produced returns a value equal to it  *)
(* and of the same kind.                                                   *)
(***************************************************************************)
RECURSIVE Supported(_)
Supported(value) ==
    IF value.kind = "dict"
    THEN \A i \in 1..Len(value.entries) :
            Supported(value.entries[i].key) /\ Supported(value.entries[i].val)
    ELSE IF value.kind = "list"
    THEN \A i \in 1..Len(value.elems) : Supported(value.elems[i])
    ELSE value.kind # "float"

C10_AsStated ==
    Supported(cv) =>
        /\ (cpc = "encoded" => cnode.ok)
        /\ (cpc = "decoded" => cout.ok /\ cout.val = cv)

(***************************************************************************)
(* C11 as stated (encoding by kind): encode_wsdl maps every value to the   *)
(* node of its kind: null to a nil-annotated node, a string to a           *)
(* string-typed node, an integer to an int-typed node, a boolean to a      *)
(* boolean-typed node whose text is "true" or "false", a mapping to a      *)
(* Map-typed node with one key / value child per entry, a list to an       *)
(* Array-typed node with one child per element, in order; a value of any   *)
(* other kind fails with a coding error.                                   *)
(***************************************************************************)
TypedAs(node, namespace, type) ==
    node.type = Some([ns |-> Some(namespace), name |-> type])

\* the node the description of the encoding gives a value of a known kind
EncodedAsKind(value, node) ==
    IF value.kind = "null" THEN node.nil
    ELSE IF value.kind = "str"
    THEN TypedAs(node, _NAMESPACE_XSD, "string") /\ node.text = Some(value.text)
    ELSE IF value.kind = "int"
    THEN TypedAs(node, _NAMESPACE_XSD, "int") /\ node.text = Some(IntToText(value.n))
    ELSE IF value.kind = "bool"
    THEN /\ TypedAs(node, _NAMESPACE_XSD, "boolean")
         /\ node.text = Some(IF value.b THEN TextTrue ELSE TextFalse)
    ELSE IF value.kind = "dict"
    THEN /\ TypedAs(node, _NAMESPACE_XML_SOAP, "Map")
         /\ Len(node.children) = Len(value.entries)
         /\ \A i \in 1..Len(value.entries) :
              /\ node.children[i].tag = "item"
              /\ Len(node.children[i].children) = 2
              /\ Ok(node.children[i].children[1])
                   = encode_wsdl(Element("key"), value.entries[i].key)
              /\ Ok(node.children[i].children[2])
                   = encode_wsdl(Element("value"), value.entries[i].val)
    ELSE /\ value.kind = "list"
         /\ TypedAs(node, _NAMESPACE_XML_SOAP_ENCODING, "Array")
         /\ Len(node.children) = Len(value.elems)
         /\ \A i \in 1..Len(value.elems) :
              Ok(node.children[i]) = encode_wsdl(Element("item"), value.elems[i])

C11_AsStated ==
    cpc = "encoded" =>
        IF cv.kind = "float" THEN cnode = Raise("WSDLCodingException")
        ELSE Supported(cv) => (cnode.ok /\ EncodedAsKind(cv, cnode.val))

(***************************************************************************)
(* C18 as stated (read-only fetch): a run with state get, and a run of the *)
(* facts module, issue no delete, update or create call and report         *)
(* changed = False; for an empty group the reported set is empty; for a    *)
(* non-empty group its ttl is the smallest ttl of the group, and whenever  *)
(* the group's records carry more than one distinct ttl the set also       *)
(* holds, under ttls, the set of all the ttls observed.                    *)
(***************************************************************************)
\* the records of the requested group
Group == MatchingRecords(remote, Prefix(params), params.type)

\* the ttls the records of the requested group carry
ObservedTtls == {Group[i].ttl : i \in 1..Len(Group)}

Fetched == pc = "exit" /\ result \in {"get", "facts"}

\* the fetch without the report of several ttls
C18_FetchReadOnly ==
    Fetched =>
        /\ Mutations = <<>>
        /\ data.reported
        /\ data.changed = FALSE
        /\ (Group = <<>> => data.set = EmptySet)
        /\ (Group # <<>> =>
              /\ data.set.ttl \in ObservedTtls
              /\ \A t \in ObservedTtls : data.set.ttl <= t)

C18_AsStated ==
    /\ C18_FetchReadOnly
    /\ (Fetched /\ Cardinality(ObservedTtls) > 1) =>
          /\ "ttls" \in DOMAIN data.set
          /\ data.set.ttls = ObservedTtls

(***************************************************************************)
(* Vocabulary of the client properties.                                    *)
(***************************************************************************)
\* the transport has answered and Composer.execute has returned or raised
Answered == sent = 1 /\ apc \in {"parsed", "authenticated", "done"}

\* the answer is a document
IsDocument == response.result.xml

\* the answer is a document that holds a Fault element
HasFault == IsDocument /\ response.result.root.faults # <<>>

TheFault == Head(response.result.root.faults)

BadStatus == response.code < 200 \/ response.code >= 300

\* the fault the claims call zone not found: server origin, that message
IsZoneNotFound(fault) ==
    /\ FaultOrigin(fault) = ServerOrigin
    /\ fault.faultstring = Some([text |-> Some("zone not found")])

(***************************************************************************)
(* C12 (fault priority): when the answer is a document that holds a Fault  *)
(* element, the construction of the Parser raises a WSDLError with the     *)
(* fault's origin and message before any header or body result is decoded  *)
(* (no decode_wsdl call was made) and no Parser exists from which a result *)
(* could be extracted; the operation never reaches the authentication test *)
(* or the extraction.  This holds whatever else the document holds.        *)
(***************************************************************************)
C12_FaultPriority ==
    (Answered /\ HasFault) =>
        /\ ~parser.ok
        /\ parser.error.cls = "WSDLError"
        /\ parser.error.error_origin = FaultOrigin(TheFault)
        /\ parser.decoded = 0
        /\ apc = "done"

\* a Fault beside a valid authenticateResponse and a valid result
C12_Witness ==
    /\ Answered
    /\ HasFault
    /\ response.result.root.header = ValidHeader
    /\ response.result.root.body = ValidBody(request.op)
    /\ ~parser.ok
    /\ parser.error.cls = "WSDLError"
    /\ parser.decoded = 0

(***************************************************************************)
(* C13 as stated (status codes): for every answer whose status code is     *)
(* outside [200, 300) the operation raises and returns no value, whatever  *)
(* the bytes hold; for a status code in [200, 300) the bytes are parsed as *)
(* a normal response.                                                      *)
(***************************************************************************)
ParsedAsResponse ==
    (Answered /\ ~BadStatus /\ IsDocument) =>
        parser = Parser(_api, response.result.root)

C13_AsStated ==
    /\ (Answered /\ BadStatus) => (apc = "done" /\ ~outcome.ok)
    /\ ParsedAsResponse

(***************************************************************************)
(* C13 as amended: for a status code outside [200, 300) Composer.execute   *)
(* raises, so no value decoded from the bytes is ever returned; the        *)
(* operation raises too, except getZone when the bytes hold the server     *)
(* fault "zone not found", which it turns into None.  For a status code in *)
(* [200, 300) the bytes are parsed as a normal response.                   *)
(***************************************************************************)
C13_NoResultOnBadStatus ==
    /\ (Answered /\ BadStatus) =>
          /\ apc = "done"
          /\ ~parser.ok
          /\ outcome.ok =>
                /\ request.op = "getZone"
                /\ outcome.val = VNull
                /\ HasFault
                /\ IsZoneNotFound(TheFault)
    /\ ParsedAsResponse

\* a document shaped like a success, answered with a bad status code
C13_Witness ==
    /\ Answered
    /\ BadStatus
    /\ IsDocument
    /\ ~HasFault
    /\ response.result.root.header = ValidHeader
    /\ response.result.root.body = ValidBody(request.op)
    /\ apc = "done"
    /\ ~outcome.ok
    /\ outcome.error = WSDLError(ServerOrigin,
                                 ErrorWhileExecuting(response.code, response.result))

(***************************************************************************)
(* C14 as stated (authentication): when the answer is parsed without a     *)
(* fault, the operation returns a result only if the header result         *)
(* authenticateResponse is the boolean true; in every other case (false,   *)
(* null, a value of another kind, no such header entry) the operation      *)
(* raises HostTechAPIAuthError, and it does so before the body result is   *)
(* extracted or its type is tested.                                        *)
(***************************************************************************)
\* Composer.execute returned a Parser, and _execute has tested its header
AuthTested == Answered /\ parser.ok /\ apc \in {"authenticated", "done"}

AuthTrue == get_header(parser, "authenticateResponse") = Ok(VBool(TRUE))

C14_AsStated ==
    AuthTested =>
        /\ (apc = "authenticated" \/ outcome.ok) => AuthTrue
        /\ ~AuthTrue =>
              /\ apc = "done"
              /\ outcome = Raise(HostTechAPIAuthError("Error on authentication!"))

(***************************************************************************)
(* C15 as stated (result kinds): an operation returns only a result of the *)
(* kind it expects (an integer for getNumberOfZones, changeIp, changeTTL;  *)
(* a boolean for deleteRecord; a mapping for getZone, getRecord,           *)
(* addRecord, updateRecord): whenever the decoded body result is of any    *)
(* other kind among null, string, integer, boolean, mapping, list, the     *)
(* operation raises the HostTechAPIError "Result has unexpected type".     *)
(***************************************************************************)
ExpectedKind(op) ==
    IF op \in {"getNumberOfZones", "changeIp", "changeTTL"} THEN "int"
    ELSE IF op = "deleteRecord" THEN "bool"
    ELSE "dict"

\* _execute has extracted a body result and tested its type
TypeTested ==
    /\ Answered
    /\ parser.ok
    /\ AuthTrue
    /\ apc = "done"
    /\ get_result(parser, ResultName(request.op)).ok

BodyResult == get_result(parser, ResultName(request.op)).val

C15_AsStated ==
    TypeTested =>
        /\ outcome.ok => BodyResult.kind = ExpectedKind(request.op)
        /\ BodyResult.kind # ExpectedKind(request.op) =>
              outcome = Raise(HostTechAPIError("Result has unexpected type"))

(***************************************************************************)
(* C16 (faults): only getZone turns a fault into a value, and only the     *)
(* fault of origin server with the message "zone not found", for which it  *)
(* returns None; every other fault in getZone (another message, another    *)
(* origin) and every fault in any other operation, "zone not found"        *)
(* included, is raised to the caller with its origin and message           *)
(* unchanged.                                                              *)
(***************************************************************************)
C16_FaultsPropagate ==
    (Answered /\ HasFault) =>
        /\ apc = "done"
        /\ outcome = IF request.op = "getZone" /\ IsZoneNotFound(TheFault)
                     THEN Ok(VNull)
                     ELSE Raise(WSDLError(FaultOrigin(TheFault), FaultMessage(TheFault)))

\* getZone has turned the server fault "zone not found" into None
C16_Witness ==
    /\ Answered
    /\ HasFault
    /\ request.op = "getZone"
    /\ IsZoneNotFound(TheFault)
    /\ apc = "done"
    /\ outcome = Ok(VNull)

(***************************************************************************)
(* C17 (record id): getRecord, updateRecord and deleteRecord called with   *)
(* the record id None raise a HostTechAPIError before anything is sent: no *)
(* request is composed and the transport is never invoked.                 *)
(***************************************************************************)
C17_NeedsRecordId ==
    (/\ request.op \in {"getRecord", "updateRecord", "deleteRecord"}
     /\ request.record_id = None
     /\ apc # "new") =>
        /\ apc = "done"
        /\ outcome = Raise(HostTechAPIError("Need record ID"))
        /\ composed = 0
        /\ sent = 0
        /\ parser = NoParser

\* deleteRecord without a record id has raised, and nothing was sent
C17_Witness ==
    /\ request = [op |-> "deleteRecord", record_id |-> None]
    /\ apc = "done"
    /\ outcome = Raise(HostTechAPIError("Need record ID"))
    /\ composed = 0
    /\ sent = 0

(***************************************************************************)
(* C19 (record name): with the zone and record names in lower case and     *)
(* without one trailing dot, a record name that neither equals the zone    *)
(* name nor ends with "." followed by the zone name makes the run fail     *)
(* before any remote call; otherwise the run fetches the zone and uses as  *)
(* prefix None when the record name equals the zone name, and the record   *)
(* name without the trailing "." and zone name when it lies below the      *)
(* zone: the group it selects and the records it creates or changes carry  *)
(* that prefix.                                                            *)
(***************************************************************************)
\* the record name is text followed by "." and the zone name
BelowZone(text) == record_in(params) = text \o <<".">> \o zone_in(params)

Heads(t) == {SubSeq(t, 1, k) : k \in 0..Len(t)}

NameInZone ==
    \/ record_in(params) = zone_in(params)
    \/ \E text \in Heads(record_in(params)) : BelowZone(text)

ExpectedPrefix ==
    IF record_in(params) = zone_in(params) THEN None
    ELSE Some(CHOOSE text \in Heads(record_in(params)) : BelowZone(text))

HavePrefix(records, prefix) == \A i \in 1..Len(records) : records[i].prefix = prefix

C19_NameCheck ==
    pc \in {"apply", "exit"} =>
        IF ~NameInZone
        THEN result = "not_in_zone" /\ calls = <<>> /\ NothingToChange(plan)
        ELSE /\ result # "not_in_zone"
             /\ calls # <<>>
             /\ Head(calls) = "getZone"
             /\ Prefix(params) = ExpectedPrefix
             /\ Planned =>
                   /\ HavePrefix(plan.records, ExpectedPrefix)
                   /\ HavePrefix(plan.to_create, ExpectedPrefix)
                   /\ HavePrefix(plan.to_change, ExpectedPrefix)

\* a record name in upper case with a trailing dot, below the zone: the
\* run creates records with the prefix w
C19_Witness ==
    /\ params.record = <<"W", ".", "E", ".", "C", ".">>
    /\ params.zone = <<"e", ".", "c">>
    /\ Planned
    /\ plan.to_create # <<>>
    /\ HavePrefix(plan.to_create, Some(<<"w">>))
    /\ plan.records # <<>>

(***************************************************************************)
(* C20 (partial failure): when the k-th call of a plan fails, the run ends *)
(* as failed; the effects of the calls 1..k-1 stay applied (the failure    *)
(* leaves the records of the remote service as they were, with the records *)
(* deleted gone and the records changed or created present); the calls     *)
(* issued are exactly the first k of the plan, so no later call is issued, *)
(* the failed call is not issued again and no call undoes an earlier one.  *)
(***************************************************************************)
Ids(records) == {records[i].id : i \in 1..Len(records)}

\* the effect of the applied operation op is visible in the remote records
Visible(op) ==
    IF op.kind = "deleteRecord" THEN op.record.id \notin Ids(remote)
    ELSE IF op.kind = "updateRecord"
    THEN \E i \in 1..Len(remote) :
            remote[i].id = op.record.id /\ RecordData(remote[i]) = RecordData(op.record)
    ELSE \E i \in 1..Len(remote) :
            /\ RecordData(remote[i]) = RecordData(op.record)
            /\ remote[i].id \notin Ids(plan.records)

Failed == pc = "exit" /\ result = "failed"

FailedAfterPrefix ==
    Failed =>
        /\ step < Len(Operations(plan))
        /\ Mutations = [i \in 1..(step + 1) |-> Operations(plan)[i].kind]
        /\ \A i \in 1..step : Visible(Operations(plan)[i])

FailureLeavesRemote ==
    (pc = "apply" /\ result' = "failed") =>
        /\ remote' = remote
        /\ step' = step
        /\ pc' = "exit"

C20_PartialFailure == []FailedAfterPrefix /\ [][FailureLeavesRemote]_vars

\* the second call of a plan failed after the first one was applied
C20_Witness ==
    /\ Failed
    /\ step = 1
    /\ Len(Mutations) = 2
    /\ Visible(Operations(plan)[1])

(***************************************************************************)
(* C21 as stated (fault origin): every WSDLError the Parser raises for a   *)
(* Fault element has the origin "client" or "server"; the origin is        *)
(* "server" whatever the fault code is (missing, empty, without a          *)
(* namespace prefix, or naming any other code), except when the fault code *)
(* names the client.                                                       *)
(***************************************************************************)
ClientOrigin == <<"c", "l", "i", "e", "n", "t">>

\* the fault has a faultcode element with text
HasCodeText(fault) == fault.faultcode # None /\ fault.faultcode[1].text # None

CodeText(fault) == fault.faultcode[1].text[1]

\* the text holds a colon, first at position i
FirstColon(t, i) == t[i] = ":" /\ \A j \in 1..(i - 1) : t[j] # ":"

\* the fault code names the client, in whatever namespace
NamesClient(fault) ==
    /\ HasCodeText(fault)
    /\ \/ Lower(CodeText(fault)) = ClientOrigin
       \/ \E i \in 1..Len(CodeText(fault)) :
             /\ FirstColon(CodeText(fault), i)
             /\ Lower(SubSeq(CodeText(fault), i + 1, Len(CodeText(fault)))) = ClientOrigin

C21_AsStated ==
    (Answered /\ HasFault) =>
        /\ parser.error.error_origin \in {ClientOrigin, ServerOrigin}
        /\ ~NamesClient(TheFault) => parser.error.error_origin = ServerOrigin

(***************************************************************************)
(* C21 as amended: when the fault code has a prefix that the Fault element *)
(* binds to the envelope namespace, the origin of the WSDLError is the     *)
(* part of the fault code after the first colon in lower case ("client",   *)
(* "server", or any other code such as "mustunderstand"); in every other   *)
(* case (no faultcode, no text, no prefix, a prefix bound to another       *)
(* namespace or to none) the origin is "server".  So the origin is         *)
(* "client" exactly when the fault code is the envelope's Client code.     *)
(***************************************************************************)
\* the prefix before the first colon is bound to the envelope namespace
EnvelopeCodeAt(fault, i) ==
    /\ FirstColon(CodeText(fault), i)
    /\ \E k \in 1..Len(fault.nsmap) :
          /\ fault.nsmap[k].prefix = SubSeq(CodeText(fault), 1, i - 1)
          /\ fault.nsmap[k].ns = _main_ns

EnvelopeCode(fault) ==
    HasCodeText(fault) /\ \E i \in 1..Len(CodeText(fault)) : EnvelopeCodeAt(fault, i)

C21_FaultOrigin ==
    (Answered /\ HasFault) =>
        /\ ~parser.ok
        /\ parser.error.cls = "WSDLError"
        /\ ~EnvelopeCode(TheFault) => parser.error.error_origin = ServerOrigin
        /\ EnvelopeCode(TheFault) =>
              \A i \in 1..Len(CodeText(TheFault)) :
                 EnvelopeCodeAt(TheFault, i) =>
                    parser.error.error_origin
                       = Lower(SubSeq(CodeText(TheFault), i + 1, Len(CodeText(TheFault))))
        /\ (parser.error.error_origin = ClientOrigin)
              <=> (EnvelopeCode(TheFault) /\ NamesClient(TheFault))

\* a fault whose code is another code of the envelope namespace
C21_Witness ==
    /\ Answered
    /\ HasFault
    /\ EnvelopeCode(TheFault)
    /\ ~NamesClient(TheFault)
    /\ ~parser.ok
    /\ parser.error.cls = "WSDLError"
    /\ parser.error.error_origin \notin {ClientOrigin, ServerOrigin}

(***************************************************************************)
(* C22 as stated (repeated results): when a response without a fault       *)
(* holds, within the header or within the body, more than one decodable    *)
(* return node under elements of the endpoint namespace with the same      *)
(* local name, the result stored and returned for that name is the first   *)
(* one in document order; looking up a name for which nothing was stored   *)
(* fails with KeyError.                                                    *)
(***************************************************************************)
RECURSIVE ReturnsNamed(_, _)
\* the return nodes below the children with that local name, in document order
ReturnsNamed(children, name) ==
    IF children = <<>> THEN <<>>
    ELSE (IF Head(children).localname = name THEN Head(children).returns ELSE <<>>)
         \o ReturnsNamed(Tail(children), name)

\* Composer.execute returned a Parser for a document
ParsedDocument == Answered /\ IsDocument /\ parser.ok

LookupNames == {"authenticateResponse", ResultName(request.op), "otherResponse"}

\* the lookup of a name gives the value decoded from that return node
LooksUp(lookup, node) == lookup = Ok(decode_wsdl(node).val)

NothingStoredFails ==
    ParsedDocument =>
        \A name \in LookupNames :
            /\ ReturnsNamed(response.result.root.header, name) = <<>>
                  => get_header(parser, name) = Raise(Exc("KeyError"))
            /\ ReturnsNamed(response.result.root.body, name) = <<>>
                  => get_result(parser, name) = Raise(Exc("KeyError"))

C22_AsStated ==
    /\ ParsedDocument =>
          \A name \in LookupNames :
              /\ Len(ReturnsNamed(response.result.root.header, name)) > 1
                    => LooksUp(get_header(parser, name),
                               Head(ReturnsNamed(response.result.root.header, name)))
              /\ Len(ReturnsNamed(response.result.root.body, name)) > 1
                    => LooksUp(get_result(parser, name),
                               Head(ReturnsNamed(response.result.root.body, name)))
    /\ NothingStoredFails

(***************************************************************************)
(* C22 as amended: the result stored and returned for a name is the one    *)
(* decoded from the last return node of that name in document order (each  *)
(* return node overwrites the result of the ones before it); looking up a  *)
(* name for which nothing was stored fails with KeyError.                  *)
(***************************************************************************)
Last(xs) == xs[Len(xs)]

C22_LastReturnWins ==
    /\ ParsedDocument =>
          \A name \in LookupNames :
              /\ ReturnsNamed(response.result.root.header, name) # <<>>
                    => LooksUp(get_header(parser, name),
                               Last(ReturnsNamed(response.result.root.header, name)))
              /\ ReturnsNamed(response.result.root.body, name) # <<>>
                    => LooksUp(get_result(parser, name),
                               Last(ReturnsNamed(response.result.root.body, name)))
    /\ NothingStoredFails

\* a header whose first authenticateResponse is false and whose second is
\* true, and a body whose first result is null and whose second is valid:
\* the operation returns a result
C22_Witness ==
    /\ ParsedDocument
    /\ Len(ReturnsNamed(response.result.root.header, "authenticateResponse")) = 2
    /\ get_header(parser, "authenticateResponse") = Ok(VBool(TRUE))
    /\ ~LooksUp(get_header(parser, "authenticateResponse"),
                Head(ReturnsNamed(response.result.root.header, "authenticateResponse")))
    /\ Len(ReturnsNamed(response.result.root.body, ResultName(request.op))) = 2
    /\ ~LooksUp(get_result(parser, ResultName(request.op)),
                Head(ReturnsNamed(response.result.root.body, ResultName(request.op))))
    /\ get_result(parser, "otherResponse") = Raise(Exc("KeyError"))
    /\ apc = "done"
    /\ outcome.ok

(***************************************************************************)
(* C23 (frame of a plan): every delete and every update of a run targets   *)
(* the id of a record of the zone snapshot whose (prefix, type) is the     *)
(* requested group; each such record is the target of at most one          *)
(* operation; under present only records marked mismatched are targeted.   *)
(* Records of other groups are never deleted or modified, and under        *)
(* present neither are the candidates that matched the desired ttl and a   *)
(* desired value: every call leaves every record that is no target of the  *)
(* plan as it was.                                                         *)
(***************************************************************************)
\* the records the plan deletes or updates
Targets == plan.to_delete \o plan.to_change

Targeted(r) == \E i \in 1..Len(Targets) : Targets[i].id = r.id

InGroup(r) == r.prefix = Prefix(params) /\ r.type = params.type

Marked(r) == \E j \in 1..Len(plan.mismatch_records) : plan.mismatch_records[j].id = r.id

\* the plan was made and no call has changed the zone: remote is the snapshot
PlanFrame ==
    (Planned /\ step = 0) =>
        /\ \A i \in 1..Len(Targets) :
              \E j \in 1..Len(remote) :
                 remote[j].id = Targets[i].id /\ InGroup(remote[j])
        /\ \A i, k \in 1..Len(Targets) : Targets[i].id = Targets[k].id => i = k
        /\ params.state = "present" => \A i \in 1..Len(Targets) : Marked(Targets[i])
        /\ \A j \in 1..Len(remote) :
              (InGroup(remote[j]) /\ ~Marked(remote[j])) =>
                 /\ remote[j].ttl = params.ttl
                 /\ Contains(DesiredPairs, <<remote[j].priority, remote[j].target>>)
                 /\ params.state = "present" => ~Targeted(remote[j])

\* a step removes or rewrites no record but a target of the plan
FrameStep ==
    \A j \in 1..Len(remote) :
        Contains(remote', remote[j]) \/ (pc = "apply" /\ Targeted(remote[j]))

OutcomeOf(pl) ==
    IF pl.fail THEN "conflict"
    ELSE IF NothingToChange(pl) THEN "unchanged"
    ELSE "changed"

CheckModeRun ==
    (params.check_mode /\ pc # "start") =>
        /\ pc = "exit"
        /\ step = 0
        /\ calls = <<"getZone">>
        /\ Planned =>
              /\ plan = PlanFor([params EXCEPT !.check_mode = FALSE], remote)
              /\ result = OutcomeOf(plan)

\* the same run outside check mode: the same plan, and the same outcome
\* once its calls, if any, were made
OutsideCheckMode ==
    (~params.check_mode /\ Planned) =>
        /\ step = 0 => plan = PlanFor([params EXCEPT !.check_mode = TRUE], remote)
        /\ (pc = "exit" /\ result # "failed") => result = OutcomeOf(plan)
        /\ pc = "apply" => OutcomeOf(plan) = "changed"

RemoteKept == params.check_mode => (remote' = remote /\ nextId' = nextId)

C24_CheckMode == [](CheckModeRun /\ OutsideCheckMode) /\ [][RemoteKept]_vars

\* a check-mode run that reports a change for a plan with a delete and an
\* update, with the zone fetch as its only call
C24_Witness ==
    /\ params.check_mode
    /\ pc = "exit"
    /\ result = "changed"
    /\ plan.to_delete # <<>>
    /\ plan.to_change # <<>>
    /\ calls = <<"getZone">>
    /\ \A j \in 1..Len(plan.records) : Contains(remote, plan.records[j])

====
